---- MODULE Spec2Model ----
(***************************************************************************)
(* Model of 00_src/nodes/parse_html.py: the DOM parser node of the book    *)
(* availability pipeline (record assembler, status resolver and the        *)
(* cross-page aggregator parse_html).                                      *)
(*                                                                         *)
(* Spec is a run of parse_html over the pages of an input state;           *)
(* SpecCarry is such a run on an input state that holds further keys;      *)
(* SpecExtract is one direct call of a helper (_find_item_blocks,          *)
(* _parse_item_block or one of the _extract_* functions) on an input       *)
(* drawn from a bounded set.                                               *)
(*                                                                         *)
(* Text is modelled as a sequence of tokens.  Every Korean word the code   *)
(* tests for is one token (romanised), so that the substring tests of the  *)
(* code become contiguous-subsequence tests:                               *)
(*   daechul=대출 ganeung=가능 jung=중 bulga=불가 yeyak=예약 doseo=도서    *)
(*   banapyejeongil=반납예정일 sanghodaecha=상호대차 bichi=비치 muin=무인  *)
(*   doseogwan=도서관 jageun=작은 bungwan=분관 jaryogwan=자료관            *)
(*   " " is one whitespace character, "12." an ordinal such as "12."       *)
(***************************************************************************)
EXTENDS Naturals, Integers, Sequences, FiniteSets, TLC

\* ------------------------------------------------------------------------
\* Bounds
\* ------------------------------------------------------------------------
MaxPages == 3

\* ------------------------------------------------------------------------
\* Text utilities
\* ------------------------------------------------------------------------
\* Python None for an Optional[str]
NoneStr == <<"<None>">>

SP == " "

\* number of characters of a token
TokLen(t) ==
    CASE t \in {" ", "[", "]", "(", ")", ":", ".", "-", "jung", "geul", "jeo",
                "zhu"} \cup {"0", "1", "2", "3", "4", "5", "6", "7", "8", "9"} -> 1
      [] t \in {"daechul", "ganeung", "bulga", "yeyak", "doseo", "bichi",
                "muin", "jageun", "bungwan", "12.", "T1", "T2", "T3", "L1", "L2"} -> 2
      [] t \in {"doseogwan", "jaryogwan", "abc", "hong", "jieuni", "geulsseuni",
                "balhaengja", "chulpansa"} -> 3
      [] t \in {"geul-geurim", "balhaengyeondo", "ISBN", "cheonggugiho",
                "deungnokbeonho"} -> 4
      [] t = "lorem19" -> 19
      [] t = "sanghodaecha" -> 4
      [] t = "banapyejeongil" -> 5
      [] t = "lorem30" -> 30
      [] OTHER -> 2

\* tokens that carry at least one Hangul syllable
KoreanTokens ==
    {"daechul", "ganeung", "jung", "bulga", "yeyak", "doseo", "bichi", "muin",
     "jageun", "bungwan", "doseogwan", "jaryogwan", "sanghodaecha",
     "banapyejeongil", "T1", "T2", "T3", "L1", "L2", "lorem30",
     "gim", "sa", "keungeulja", "jeomjadoseo", "jeonjachaek", "ilbandoseo",
     "cheonggugiho", "wichichullyeok", "deungnokbeonho",
     "hong", "lorem19", "jeoja", "jieuni", "geulsseuni", "jakga", "geul",
     "geul-geurim", "geurim", "jieum", "jeo", "balhaengja", "balhaengyeondo",
     "chulpansa"}

RECURSIVE StrLen(_)
\* len(s)
StrLen(s) == IF s = <<>> THEN 0 ELSE TokLen(Head(s)) + StrLen(Tail(s))

\* k in s  (substring test)
Contains(s, k) ==
    \E i \in 0..(Len(s) - Len(k)) : SubSeq(s, i + 1, i + Len(k)) = k

RECURSIVE LStrip(_)
LStrip(s) == IF s # <<>> /\ Head(s) = SP THEN LStrip(Tail(s)) ELSE s

RECURSIVE RStrip(_)
RStrip(s) ==
    IF s # <<>> /\ s[Len(s)] = SP THEN RStrip(SubSeq(s, 1, Len(s) - 1)) ELSE s

\* str.strip()
Strip(s) == RStrip(LStrip(s))

RECURSIVE Collapse(_)
\* re.sub(r"\s+", " ", txt)
Collapse(s) ==
    IF Len(s) < 2 THEN s
    ELSE IF s[1] = SP /\ s[2] = SP THEN Collapse(Tail(s))
    ELSE <<Head(s)>> \o Collapse(Tail(s))

\* _clean
Clean(txt) ==
    IF txt = NoneStr \/ txt = <<>> THEN <<>> ELSE Strip(Collapse(txt))

\* _has_korean
HasKorean(s) == \E i \in 1..Len(s) : s[i] \in KoreanTokens

RECURSIVE JoinSp(_)
\* " ".join(texts)
JoinSp(texts) ==
    IF texts = <<>> THEN <<>>
    ELSE IF Len(texts) = 1 THEN texts[1]
    ELSE texts[1] \o <<SP>> \o JoinSp(Tail(texts))

RECURSIVE SelectNodes(_, _)
\* find_all over a flat node list: the nodes whose tag name is in names
SelectNodes(nodes, names) ==
    IF nodes = <<>> THEN <<>>
    ELSE IF Head(nodes).tag \in names
         THEN <<Head(nodes)>> \o SelectNodes(Tail(nodes), names)
         ELSE SelectNodes(Tail(nodes), names)

\* ------------------------------------------------------------------------
\* Keyword tables
\* ------------------------------------------------------------------------
KwAvail     == <<"daechul", "ganeung">>          \* 대출가능
KwLoan      == <<"daechul", "jung">>             \* 대출중
KwLoanSp    == <<"daechul", " ", "jung">>        \* 대출 중
KwUnavail   == <<"daechul", "bulga">>            \* 대출불가
KwUnavailSp == <<"daechul", " ", "bulga">>       \* 대출 불가
KwReserved  == <<"yeyak", "jung">>               \* 예약중
KwShelf     == <<"bichi", "jung">>               \* 비치중
ExclReserve == <<"doseo", "yeyak", "bulga">>     \* 도서예약불가
ExclILL     == <<"sanghodaecha", "bulga">>       \* 상호대차불가
ExclKiosk   == <<"muin", "yeyak", "bulga">>      \* 무인예약불가

STATUS_KEYWORDS ==
    << KwAvail, KwLoan, KwUnavailSp, KwUnavail,
       <<"yeyak", "ganeung">>, <<"yeyak", "bulga">>, <<"yeyak", " ", "jung">>,
       KwReserved, <<"banapyejeongil">>, <<"sanghodaecha">>, KwShelf >>

LIBRARY_HINTS ==
    << <<"doseogwan">>, <<"jageun", "doseogwan">>, <<"bungwan">>, <<"jaryogwan">> >>

\* any(kw in s for kw in STATUS_KEYWORDS)
HasStatusKw(s) ==
    \E k \in 1..Len(STATUS_KEYWORDS) : Contains(s, STATUS_KEYWORDS[k])

\* ------------------------------------------------------------------------
\* An item block is a record
\*   titleHits : texts of the elements hit by the title selectors, in order
\*   imgAlt    : alt text of the first img carrying one, or NoneStr
\*   nodes     : the text-bearing tags of the block, in document order,
\*               each [tag, cls, text]
\*   hasParent : the block has a parent element other than the document
\*   before, after : the other tags of that parent, before / after the block
\*   author, call_number, cover_image : what the optional extractors yield
\*   raises    : extraction of this block raises an exception
\* ------------------------------------------------------------------------
Node(tag, cls, text) == [tag |-> tag, cls |-> cls, text |-> text]

\* search_scope of the status extractor: the parent when there is one
SearchScope(block) ==
    IF block.hasParent THEN block.before \o block.nodes \o block.after
    ELSE block.nodes

RECURSIVE NodeTexts(_)
NodeTexts(nodes) ==
    IF nodes = <<>> THEN <<>> ELSE <<Head(nodes).text>> \o NodeTexts(Tail(nodes))

\* _clean(element.get_text(" "))
ScopeText(nodes) == Clean(JoinSp(NodeTexts(nodes)))

\* ------------------------------------------------------------------------
\* Status extractor (_extract_status_from_block)
\* ------------------------------------------------------------------------
EmphasisClasses == <<"emp3", "emp2", "emp1", "status", "state">>

\* hits = [kw for kw in STATUS_KEYWORDS if kw in txt]
Hits(txt) ==
    SelectSeq(STATUS_KEYWORDS, LAMBDA kw : Contains(txt, kw))

RECURSIVE StatusRule1(_, _)
\* lines 256-269: the first b/span/em tag of each emphasis class, in class order
StatusRule1(scope, k) ==
    IF k > Len(EmphasisClasses) THEN NoneStr
    ELSE LET found == { i \in 1..Len(scope) :
                          /\ scope[i].tag \in {"b", "span", "em"}
                          /\ scope[i].cls = EmphasisClasses[k] }
         IN IF found = {} THEN StatusRule1(scope, k + 1)
            ELSE LET first == CHOOSE i \in found : \A j \in found : i <= j
                     tag_text == Clean(scope[first].text)
                 IN IF tag_text # <<>> /\ HasStatusKw(tag_text)
                    THEN IF \/ Contains(tag_text, ExclReserve)
                            \/ Contains(tag_text, ExclILL)
                            \/ Contains(tag_text, ExclKiosk)
                         THEN StatusRule1(scope, k + 1)
                         ELSE IF Contains(tag_text, KwAvail) THEN KwAvail
                         ELSE IF \/ Contains(tag_text, KwLoan)
                                 \/ Contains(tag_text, KwLoanSp)
                                 \/ Contains(tag_text, KwUnavail)
                              THEN KwLoan
                         ELSE tag_text
                    ELSE StatusRule1(scope, k + 1)

\* re.search(r'\[([^\]]+)\]', tag_text): group(1) of the leftmost match,
\* NoneStr when there is no match
BracketContent(s) ==
    LET opens == { i \in 1..Len(s) :
                     /\ s[i] = "["
                     /\ i + 1 <= Len(s)
                     /\ s[i + 1] # "]"
                     /\ \E j \in (i + 2)..Len(s) : s[j] = "]" }
    IN IF opens = {} THEN NoneStr
       ELSE LET i == CHOOSE a \in opens : \A b \in opens : a <= b
                j == CHOOSE a \in (i + 2)..Len(s) :
                        /\ s[a] = "]"
                        /\ \A b \in (i + 2)..(a - 1) : s[b] # "]"
            IN SubSeq(s, i + 1, j - 1)

\* faulty variant: the bracket is not looked at
BoldTagStatusOuterOnly(text) ==
    LET tag_text == Clean(text)
    IN IF Contains(tag_text, KwAvail) THEN KwAvail
       ELSE IF Contains(tag_text, KwLoan) \/ Contains(tag_text, KwLoanSp)
            THEN KwLoan
       ELSE IF Contains(tag_text, KwUnavail) \/ Contains(tag_text, KwUnavailSp)
            THEN KwUnavail
       ELSE NoneStr

\* lines 282-310: what one b/strong tag resolves to, NoneStr to go on
BoldTagStatus(text) ==
    LET tag_text == Clean(text)
        bracket_content == BracketContent(tag_text)
        outer == IF Contains(tag_text, KwAvail) THEN KwAvail
                 ELSE IF Contains(tag_text, KwLoan) \/ Contains(tag_text, KwLoanSp)
                      THEN KwLoan
                 ELSE IF Contains(tag_text, KwUnavail) \/ Contains(tag_text, KwUnavailSp)
                      THEN KwUnavail
                 ELSE NoneStr
    IN IF tag_text = <<>> THEN NoneStr
       ELSE IF bracket_content # NoneStr
            THEN IF Contains(bracket_content, KwAvail) THEN KwAvail
                 ELSE IF \/ Contains(bracket_content, KwLoan)
                         \/ Contains(bracket_content, KwLoanSp)
                      THEN KwLoan
                 ELSE IF \/ Contains(bracket_content, KwUnavail)
                         \/ Contains(bracket_content, KwUnavailSp)
                      THEN KwUnavail
                 ELSE IF Contains(bracket_content, KwReserved) THEN KwUnavail
                 ELSE outer
            ELSE outer

\* faulty variant: 대출가능 in any tag, else 대출중 in any tag, else 대출불가
FirstBoldStatusByRank(tags) ==
    LET got == { BoldTagStatus(tags[i].text) : i \in 1..Len(tags) }
    IN IF KwAvail \in got THEN KwAvail
       ELSE IF KwLoan \in got THEN KwLoan
       ELSE IF KwUnavail \in got THEN KwUnavail
       ELSE NoneStr

RECURSIVE FirstBoldStatus(_)
\* lines 281-310: the loop returns at the first tag that resolves
FirstBoldStatus(tags) ==
    IF tags = <<>> THEN NoneStr
    ELSE LET r == BoldTagStatus(Head(tags).text)
         IN IF r # NoneStr THEN r ELSE FirstBoldStatus(Tail(tags))

\* faulty variant: the tags with a bracket are all tried before the others
StatusRuleBoldBracketsFirst(block) ==
    LET scope == SearchScope(block)
        scan == SelectNodes(block.nodes, {"b"})
                \o SelectNodes(block.nodes, {"strong"})
                \o SelectNodes(scope, {"b"})
                \o SelectNodes(scope, {"strong"})
        bracketed == SelectSeq(scan,
                         LAMBDA t : BracketContent(Clean(t.text)) # NoneStr)
    IN IF FirstBoldStatus(bracketed) # NoneStr THEN FirstBoldStatus(bracketed)
       ELSE FirstBoldStatus(scan)

\* lines 278-310: for search_area in [block, search_scope], for b then strong
StatusRuleBold(block) ==
    LET scope == SearchScope(block)
    IN FirstBoldStatus(SelectNodes(block.nodes, {"b"})
                       \o SelectNodes(block.nodes, {"strong"})
                       \o SelectNodes(scope, {"b"})
                       \o SelectNodes(scope, {"strong"}))

\* faulty variant: the fragment is not cut at the parenthesis
BeforeParenWhole(s) == Strip(s)

\* tag_text.split('(')[0].split('[')[0].strip()
BeforeParen(s) ==
    LET cut == { i \in 1..Len(s) : s[i] \in {"(", "["} }
    IN IF cut = {} THEN Strip(s)
       ELSE Strip(SubSeq(s, 1, (CHOOSE i \in cut : \A j \in cut : i <= j) - 1))

RECURSIVE SpanScanNoExclusion(_, _, _)
\* faulty variant: 도서예약불가 and 상호대차불가 are not skipped
SpanScanNoExclusion(tags, primary, secondary) ==
    IF tags = <<>> THEN <<primary, secondary>>
    ELSE LET tag_text == Clean(Head(tags).text)
             rest == Tail(tags)
             noPrimary == primary = NoneStr \/ primary = <<>>
             noSecondary == secondary = NoneStr \/ secondary = <<>>
         IN IF tag_text = <<>> \/ ~HasStatusKw(tag_text)
            THEN SpanScanNoExclusion(rest, primary, secondary)
            ELSE IF Contains(tag_text, KwAvail)
            THEN SpanScanNoExclusion(rest, KwAvail, secondary)
            ELSE IF Contains(tag_text, KwLoan) \/ Contains(tag_text, KwLoanSp)
            THEN SpanScanNoExclusion(rest, IF noPrimary THEN KwLoan ELSE primary,
                                     secondary)
            ELSE IF Contains(tag_text, KwUnavail) \/ Contains(tag_text, KwUnavailSp)
            THEN SpanScanNoExclusion(rest, IF noPrimary THEN KwUnavail ELSE primary,
                                     secondary)
            ELSE IF noPrimary /\ noSecondary /\ StrLen(tag_text) < 30
            THEN SpanScanNoExclusion(rest, primary, BeforeParen(tag_text))
            ELSE SpanScanNoExclusion(rest, primary, secondary)

RECURSIVE SpanScan(_, _, _)
\* lines 317-339: fold over the em then span tags, carrying
\* (primary_status, secondary_status); NoneStr stands for None
SpanScan(tags, primary, secondary) ==
    IF tags = <<>> THEN <<primary, secondary>>
    ELSE LET tag_text == Clean(Head(tags).text)
             rest == Tail(tags)
             \* "if not primary_status" / "not secondary_status": None or ""
             noPrimary == primary = NoneStr \/ primary = <<>>
             noSecondary == secondary = NoneStr \/ secondary = <<>>
         IN IF tag_text = <<>> \/ ~HasStatusKw(tag_text)
            THEN SpanScan(rest, primary, secondary)
            ELSE IF Contains(tag_text, ExclReserve) \/ Contains(tag_text, ExclILL)
            THEN SpanScan(rest, primary, secondary)
            ELSE IF Contains(tag_text, KwAvail)
            THEN SpanScan(rest, KwAvail, secondary)
            ELSE IF Contains(tag_text, KwLoan) \/ Contains(tag_text, KwLoanSp)
            THEN SpanScan(rest, IF noPrimary THEN KwLoan ELSE primary, secondary)
            ELSE IF Contains(tag_text, KwUnavail) \/ Contains(tag_text, KwUnavailSp)
            THEN SpanScan(rest, IF noPrimary THEN KwUnavail ELSE primary, secondary)
            ELSE IF noPrimary /\ noSecondary /\ StrLen(tag_text) < 30
            THEN SpanScan(rest, primary, BeforeParen(tag_text))
            ELSE SpanScan(rest, primary, secondary)

\* faulty variant: without the closing "return hits[0]"
StatusFallbackNoDefault(txt) ==
    LET order == <<KwLoan, KwUnavailSp, KwUnavail, KwShelf>>
        inTxt == { k \in 1..Len(order) : Contains(txt, order[k]) }
    IN IF ~Contains(txt, ExclReserve) /\ ~Contains(txt, ExclILL)
       THEN IF Contains(txt, KwAvail) THEN KwAvail
            ELSE IF inTxt # {}
                 THEN order[CHOOSE k \in inTxt : \A m \in inTxt : k <= m]
                 ELSE NoneStr
       ELSE NoneStr

\* lines 346-354: full-text fallback
StatusFallback(txt) ==
    LET hits == Hits(txt)
        order == <<KwLoan, KwUnavailSp, KwUnavail, KwShelf>>
        inTxt == { k \in 1..Len(order) : Contains(txt, order[k]) }
    IN IF ~Contains(txt, ExclReserve) /\ ~Contains(txt, ExclILL)
       THEN IF Contains(txt, KwAvail) THEN KwAvail
            ELSE IF inTxt # {}
                 THEN order[CHOOSE k \in inTxt : \A m \in inTxt : k <= m]
                 ELSE hits[1]
       ELSE hits[1]

\* _extract_status_from_block
ExtractStatusFromBlock(block) ==
    LET search_scope == SearchScope(block)
        txt == ScopeText(search_scope)
        r1 == StatusRule1(search_scope, 1)
        r23 == StatusRuleBold(block)
        ps == SpanScan(SelectNodes(search_scope, {"em"})
                       \o SelectNodes(search_scope, {"span"}), NoneStr, NoneStr)
    IN IF Hits(txt) = <<>> THEN NoneStr
       ELSE IF r1 # NoneStr THEN r1
       ELSE IF r23 # NoneStr THEN r23
       ELSE IF ps[1] # NoneStr /\ ps[1] # <<>> THEN ps[1]
       ELSE IF ps[2] # NoneStr /\ ps[2] # <<>> THEN ps[2]
       ELSE StatusFallback(txt)

\* faulty variant: any 가능 counts as available
StatusToAvailableLoose(status_raw) ==
    Contains(IF status_raw = NoneStr THEN <<>> ELSE status_raw, <<"ganeung">>)

\* _status_to_available: s = status_raw or ""; "대출가능" in s
StatusToAvailable(status_raw) ==
    Contains(IF status_raw = NoneStr THEN <<>> ELSE status_raw, KwAvail)

\* ------------------------------------------------------------------------
\* Title extractor (_extract_title_from_block)
\* ------------------------------------------------------------------------
\* re.sub(r"^\d+\.\s*", "", t)
StripOrdinal(t) ==
    IF t # <<>> /\ Head(t) = "12." THEN LStrip(Tail(t)) ELSE t

\* re.sub(r"^도서\s*\d*\.\s*", "", t)
StripItemOrdinal(t) ==
    IF t # <<>> /\ Head(t) = "doseo"
    THEN LET r == LStrip(Tail(t))
         IN IF r # <<>> /\ Head(r) \in {"12.", "."} THEN LStrip(Tail(r)) ELSE t
    ELSE t

\* re.sub(r"^도서\s+", "", t)
StripItemMarker(t) ==
    IF Len(t) >= 2 /\ t[1] = "doseo" /\ t[2] = SP THEN LStrip(Tail(t)) ELSE t

RECURSIVE TitleCandidates(_)
\* lines 210-223: one candidate per selector hit with a non-empty text
TitleCandidates(hits) ==
    IF hits = <<>> THEN <<>>
    ELSE LET t == Clean(Head(hits))
         IN (IF t # <<>>
             THEN <<StripItemMarker(StripItemOrdinal(StripOrdinal(t)))>>
             ELSE <<>>) \o TitleCandidates(Tail(hits))

\* faulty variant: the longest candidate, Hangul or not
ExtractTitleLongestAny(block) ==
    LET structural == TitleCandidates(block.titleHits)
        alt == Clean(block.imgAlt)
        all == IF structural # <<>> THEN structural
               ELSE IF block.imgAlt # NoneStr /\ alt # <<>> THEN <<alt>>
               ELSE <<>>
        best == { i \in 1..Len(all) :
                    /\ \A j \in 1..Len(all) : StrLen(all[j]) <= StrLen(all[i])
                    /\ \A j \in (i + 1)..Len(all) : StrLen(all[j]) < StrLen(all[i]) }
    IN IF all = <<>> THEN NoneStr ELSE all[CHOOSE i \in best : TRUE]

\* _extract_title_from_block
ExtractTitleFromBlock(block) ==
    LET structural == TitleCandidates(block.titleHits)
        alt == Clean(block.imgAlt)
        all == IF structural # <<>> THEN structural
               ELSE IF block.imgAlt # NoneStr /\ alt # <<>> THEN <<alt>>
               ELSE <<>>
        korean == SelectSeq(all, HasKorean)
        \* list.sort(key=len) is stable: [-1] is the last of the longest
        best == { i \in 1..Len(korean) :
                    /\ \A j \in 1..Len(korean) : StrLen(korean[j]) <= StrLen(korean[i])
                    /\ \A j \in (i + 1)..Len(korean) : StrLen(korean[j]) < StrLen(korean[i]) }
    IN IF korean = <<>> THEN NoneStr ELSE korean[CHOOSE i \in best : TRUE]

\* ------------------------------------------------------------------------
\* Library extractor (_extract_library, _pick_library)
\* ------------------------------------------------------------------------
RECURSIVE CleanNonEmpty(_)
\* lines 360-364: the non-empty cleaned texts
CleanNonEmpty(texts) ==
    IF texts = <<>> THEN <<>>
    ELSE LET t == Clean(Head(texts))
         IN (IF t # <<>> THEN <<t>> ELSE <<>>) \o CleanNonEmpty(Tail(texts))

\* faulty variant: of equally long candidates the earliest is taken
PickLibraryEarliest(candidates) ==
    LET libs == SelectSeq(candidates, LAMBDA c :
                    /\ \E h \in 1..Len(LIBRARY_HINTS) : Contains(c, LIBRARY_HINTS[h])
                    /\ ~HasStatusKw(c)
                    /\ StrLen(c) <= 50)
        best == { i \in 1..Len(libs) :
                    /\ \A j \in 1..Len(libs) : StrLen(libs[j]) <= StrLen(libs[i])
                    /\ \A j \in 1..(i - 1) : StrLen(libs[j]) < StrLen(libs[i]) }
    IN IF libs = <<>> THEN NoneStr ELSE libs[CHOOSE i \in best : TRUE]

\* _pick_library
PickLibrary(candidates) ==
    LET libs == SelectSeq(candidates, LAMBDA c :
                    /\ \E h \in 1..Len(LIBRARY_HINTS) : Contains(c, LIBRARY_HINTS[h])
                    /\ ~HasStatusKw(c)
                    /\ StrLen(c) <= 50)
        \* sorted by (len, position): the last one is the latest of the longest
        best == { i \in 1..Len(libs) :
                    /\ \A j \in 1..Len(libs) : StrLen(libs[j]) <= StrLen(libs[i])
                    /\ \A j \in (i + 1)..Len(libs) : StrLen(libs[j]) < StrLen(libs[i]) }
    IN IF libs = <<>> THEN NoneStr ELSE libs[CHOOSE i \in best : TRUE]

\* _extract_library
ExtractLibrary(block) ==
    PickLibrary(CleanNonEmpty(NodeTexts(SelectNodes(block.nodes, {"em", "span"}))))

\* re.sub(r'^<label>\s*[:：]\s*', '', library).strip()
StripLabel(library, label) ==
    IF Len(library) >= Len(label) /\ SubSeq(library, 1, Len(label)) = label
    THEN LET r == LStrip(SubSeq(library, Len(label) + 1, Len(library)))
         IN IF r # <<>> /\ Head(r) = ":" THEN Strip(Tail(r)) ELSE Strip(library)
    ELSE Strip(library)

\* ------------------------------------------------------------------------
\* Call number extractor (_extract_call_number)
\*
\* Call number texts are modelled character by character: a digit is the
\* token of that digit, gim=김 and sa=사 are single Hangul syllables, siot=ㅅ
\* is a Hangul jamo (a word character outside 가-힣), and the words the
\* patterns name are one token each:
\*   keungeulja=큰글자 jeomjadoseo=점자도서 jeonjachaek=전자책
\*   ilbandoseo=일반도서 cheonggugiho=청구기호 wichichullyeok=위치출력
\*   deungnokbeonho=등록번호
\* The block is a record
\*   info02 : texts of the spans inside the div.info02 tags, in order
\*   third  : texts of the spans inside the third li of the ul tags
\*   text   : block.get_text(" ")
\* ------------------------------------------------------------------------
Digits == {"0", "1", "2", "3", "4", "5", "6", "7", "8", "9"}

\* [가-힣], one syllable
HangulChars == {"gim", "sa"}

\* (?:큰글자|점자도서|전자책|일반도서)
CallNoPrefixes == {"keungeulja", "jeomjadoseo", "jeonjachaek", "ilbandoseo"}

\* (?:<|$|위치출력|등록번호|ISBN), the words
CallNoStops == {"wichichullyeok", "deungnokbeonho", "ISBN"}

\* words made of Hangul syllables only
HangulWords == CallNoPrefixes \cup {"cheonggugiho", "wichichullyeok", "deungnokbeonho"}

\* [가-힣\d\-]
SuffixClass == Digits \cup {"-"} \cup HangulChars \cup HangulWords

\* \w
WordChars == Digits \cup HangulChars \cup HangulWords \cup {"siot", "a", "abc", "ISBN"}

\* \s* from position i: the position of the first character that is no
\* whitespace (Len(text) + 1 when there is none)
SkipSpaces(text, i) ==
    CHOOSE d \in i..(Len(text) + 1) :
        /\ d = Len(text) + 1 \/ text[d] # SP
        /\ \A k \in i..(d - 1) : text[k] = SP

\* \b after position e
Boundary(text, e) ==
    (text[e] \in WordChars) # (e < Len(text) /\ text[e + 1] \in WordChars)

\* [가-힣\d\-]+\b from position j: the end of the longest run that ends at a
\* word boundary, 0 when there is none
SuffixEnd(text, j) ==
    LET ends == { e \in j..Len(text) :
                    /\ \A k \in j..e : text[k] \in SuffixClass
                    /\ Boundary(text, e) }
    IN IF ends = {} THEN 0 ELSE CHOOSE e \in ends : \A f \in ends : f <= e

\* \d{3,4}[.\-][가-힣\d\-]+\b from position d: the end of the match, 0 when
\* there is none
BodyEnd(text, d) ==
    LET digits(n) == /\ d + n <= Len(text)
                     /\ \A k \in d..(d + n - 1) : text[k] \in Digits
                     /\ text[d + n] \in {".", "-"}
    IN IF digits(4) THEN SuffixEnd(text, d + 5)
       ELSE IF digits(3) THEN SuffixEnd(text, d + 4)
       ELSE 0

\* CALLNO_DIRECT_PAT matched at position i: the end of the match, 0 when
\* there is none
DirectMatchAt(text, i) ==
    LET withPrefix == IF text[i] \in CallNoPrefixes
                      THEN BodyEnd(text, SkipSpaces(text, i + 1))
                      ELSE 0
    IN IF withPrefix # 0 THEN withPrefix
       ELSE BodyEnd(text, SkipSpaces(text, i))

\* m = CALLNO_DIRECT_PAT.search(text); _clean(m.group(0)) if m
DirectSearch(text) ==
    LET starts == { i \in 1..Len(text) : DirectMatchAt(text, i) # 0 }
    IN IF starts = {} THEN NoneStr
       ELSE LET i == CHOOSE s \in starts : \A t \in starts : s <= t
            IN Clean(SubSeq(text, i, DirectMatchAt(text, i)))

\* (?=\s*(?:<|$|위치출력|등록번호|ISBN)) at position p
StopAhead(text, p) ==
    LET q == SkipSpaces(text, p)
    IN q > Len(text) \/ text[q] \in CallNoStops

\* ([^\n<>]+?)(?=...) from position b: the shortest non-empty capture
LazyCapture(text, b) ==
    LET e == CHOOSE x \in b..Len(text) :
                /\ StopAhead(text, x + 1)
                /\ \A y \in b..(x - 1) : ~StopAhead(text, y + 1)
    IN SubSeq(text, b, e)

\* CALLNO_PAT matched at the label at position i: group(1), NoneStr when
\* there is no match.  The text is cleaned, so it does not end in whitespace:
\* when nothing follows the colon, the colon itself is captured.
LabelMatchAt(text, i) ==
    LET a == SkipSpaces(text, i + 1)
        c == IF a <= Len(text) /\ text[a] = ":" THEN a + 1 ELSE a
        b == SkipSpaces(text, c)
    IN IF b <= Len(text) THEN LazyCapture(text, b)
       ELSE IF c > a THEN <<":">>
       ELSE NoneStr

\* m = CALLNO_PAT.search(text); _clean(m.group(1)) if m
LabelSearch(text) ==
    LET starts == { i \in 1..Len(text) :
                      text[i] = "cheonggugiho" /\ LabelMatchAt(text, i) # NoneStr }
    IN IF starts = {} THEN NoneStr
       ELSE Clean(LabelMatchAt(text, CHOOSE s \in starts : \A t \in starts : s <= t))

RECURSIVE FirstDirect(_)
\* the first span whose cleaned text the direct pattern matches
FirstDirect(spans) ==
    IF spans = <<>> THEN NoneStr
    ELSE IF DirectSearch(Clean(Head(spans))) # NoneStr
         THEN DirectSearch(Clean(Head(spans)))
         ELSE FirstDirect(Tail(spans))

\* _extract_call_number
ExtractCallNumber(block) ==
    LET block_text == Clean(block.text)
    IN IF FirstDirect(block.info02) # NoneStr THEN FirstDirect(block.info02)
       ELSE IF FirstDirect(block.third) # NoneStr THEN FirstDirect(block.third)
       ELSE IF LabelSearch(block_text) # NoneStr THEN LabelSearch(block_text)
       ELSE DirectSearch(block_text)

\* ------------------------------------------------------------------------
\* Author extractor (_extract_author)
\*
\* Tokens: hong=홍길동 (a name), jeoja=저자 jieuni=지은이 geulsseuni=글쓴이
\* jakga=작가 geul=글 (labels), geul-geurim=글·그림 geurim=그림 jieum=지음
\* jeo=저 zhu=著 (descriptor suffixes), balhaengja=발행자
\* balhaengyeondo=발행연도 chulpansa=출판사 (metadata words); lorem19 is a
\* Korean text of 19 characters.
\* The block is a record
\*   info01 : get_text() of each div.info01, in order
\*   second : text of the javascript-href span of the second li of each ul
\*            that has one
\*   spans  : texts of the spans inside the author-classed dd/div tags
\*   text   : block.get_text(" ")
\* ------------------------------------------------------------------------
\* (?:저자|지은이|글쓴이|작가|글)
AuthorLabels == {"jeoja", "jieuni", "geulsseuni", "jakga", "geul"}

\* (글·그림|그림|글쓴이|지음|저|著)
AuthorSuffixes == {"geul-geurim", "geurim", "geulsseuni", "jieum", "jeo", "zhu"}

\* re.match(r'^\d|ISBN|청구기호|발행|출판', text): the first words that match
MetaStartsInfo ==
    Digits \cup {"ISBN", "cheonggugiho", "balhaengja", "balhaengyeondo", "chulpansa"}

\* re.match(r'^\d|ISBN|청구기호|대출|도서관', text): the first words that match
MetaStartsItem == Digits \cup {"ISBN", "cheonggugiho", "daechul", "doseogwan"}

\* (?:발행자|발행연도|출판사|ISBN|등록번호|청구기호)
AuthorStops ==
    {"balhaengja", "balhaengyeondo", "chulpansa", "ISBN", "deungnokbeonho",
     "cheonggugiho"}

\* re.sub(r'\s*(글·그림|그림|글쓴이|지음|저|著)\s*$', '', text)
StripSuffix(text) ==
    LET t == RStrip(text)
    IN IF t # <<>> /\ t[Len(t)] \in AuthorSuffixes
       THEN RStrip(SubSeq(t, 1, Len(t) - 1))
       ELSE text

\* faulty variant: the value is not checked again after the suffix is cut
DirectAuthorNoRecheck(raw, metaStarts) ==
    LET text == Clean(raw)
    IN IF /\ text # <<>>
          /\ 2 <= StrLen(text) /\ StrLen(text) <= 50
          /\ HasKorean(text)
          /\ Head(text) \notin metaStarts
       THEN Clean(StripSuffix(text))
       ELSE NoneStr

\* the body of the loops of strategies 1 and 2 (lines 117-126, 140-148):
\* the author read from a text without a label, NoneStr when it is rejected
DirectAuthor(raw, metaStarts) ==
    LET text == Clean(raw)
    IN IF /\ text # <<>>
          /\ 2 <= StrLen(text) /\ StrLen(text) <= 50
          /\ HasKorean(text)
          /\ Head(text) \notin metaStarts
       THEN LET author == Clean(StripSuffix(text))
            IN IF author # <<>> /\ HasKorean(author) THEN author ELSE NoneStr
       ELSE NoneStr

\* m = AUTHOR_PAT.search(text); m.group(1), NoneStr when there is no match
AuthorPat(text) ==
    LET starts == { i \in 1..Len(text) :
                      /\ text[i] \in AuthorLabels
                      /\ LET a == SkipSpaces(text, i + 1)
                         IN /\ a <= Len(text)
                            /\ text[a] = ":"
                            /\ SkipSpaces(text, a + 1) <= Len(text) }
    IN IF starts = {} THEN NoneStr
       ELSE LET i == CHOOSE s \in starts : \A t \in starts : s <= t
                b == SkipSpaces(text, SkipSpaces(text, i + 1) + 1)
            IN SubSeq(text, b, Len(text))

\* re.split(r'\s+(?:발행자|발행연도|출판사|ISBN|등록번호|청구기호)', author)[0]
SplitMeta(author) ==
    LET cuts == { p \in 1..(Len(author) - 1) :
                    /\ author[p] = SP
                    /\ SkipSpaces(author, p) <= Len(author)
                    /\ author[SkipSpaces(author, p)] \in AuthorStops }
    IN IF cuts = {} THEN author
       ELSE SubSeq(author, 1, (CHOOSE p \in cuts : \A q \in cuts : p <= q) - 1)

\* the body of strategies 3 and 4 (lines 156-164, 168-177): the author read
\* after a label, cut before the metadata words when split is set
LabelledAuthor(raw, split) ==
    LET text == Clean(raw)
        m == AuthorPat(text)
        cut == IF split THEN SplitMeta(Clean(m)) ELSE Clean(m)
        author == Clean(StripSuffix(cut))
    IN IF m = NoneStr THEN NoneStr
       ELSE IF author # <<>> /\ StrLen(author) <= 50 /\ HasKorean(author)
       THEN author
       ELSE NoneStr

RECURSIVE FirstDirectAuthor(_, _)
\* for tag in info01_tags / for ul in ul_tags
FirstDirectAuthor(texts, metaStarts) ==
    IF texts = <<>> THEN NoneStr
    ELSE IF DirectAuthor(Head(texts), metaStarts) # NoneStr
         THEN DirectAuthor(Head(texts), metaStarts)
         ELSE FirstDirectAuthor(Tail(texts), metaStarts)

RECURSIVE FirstLabelledAuthor(_)
\* for tag in author_tags: for span in tag.find_all('span')
FirstLabelledAuthor(spans) ==
    IF spans = <<>> THEN NoneStr
    ELSE IF LabelledAuthor(Head(spans), FALSE) # NoneStr
         THEN LabelledAuthor(Head(spans), FALSE)
         ELSE FirstLabelledAuthor(Tail(spans))

\* _extract_author
ExtractAuthor(block) ==
    IF FirstDirectAuthor(block.info01, MetaStartsInfo) # NoneStr
    THEN FirstDirectAuthor(block.info01, MetaStartsInfo)
    ELSE IF FirstDirectAuthor(block.second, MetaStartsItem) # NoneStr
    THEN FirstDirectAuthor(block.second, MetaStartsItem)
    ELSE IF FirstLabelledAuthor(block.spans) # NoneStr
    THEN FirstLabelledAuthor(block.spans)
    ELSE LabelledAuthor(block.text, TRUE)

\* ------------------------------------------------------------------------
\* Cover image extractor (_extract_cover_image)
\*
\* A src attribute is a token sequence such as
\*   <<"http", "://", "host", "/", "c1", ".jpg">>; <<>> is a missing src.
\* The block is a record
\*   imgs      : the src of each img of the block, in document order
\*   hasParent : the block has a parent element other than the document
\*   before, after : the src of the other imgs of that parent
\* ------------------------------------------------------------------------
\* str.lower(), token by token
LowerTok(t) ==
    CASE t \in {"NOIMG", "NoImg"} -> "noimg"
      [] t = "NO-IMAGE" -> "no-image"
      [] t = "HTTP" -> "http"
      [] OTHER -> t

Lower(s) == [ i \in 1..Len(s) |-> LowerTok(s[i]) ]

\* src.startswith("http")
StartsWithHttp(src) == src # <<>> /\ src[1] \in {"http", "https"}

\* the test of lines 382-385
AcceptedSrc(src) ==
    /\ src # <<>>
    /\ StartsWithHttp(src)
    /\ ~Contains(Lower(src), <<"noimg">>)
    /\ ~Contains(Lower(src), <<"no-image">>)

RECURSIVE FirstAccepted(_)
\* for img in area.find_all("img"): the first src that is returned
FirstAccepted(srcs) ==
    IF srcs = <<>> THEN NoneStr
    ELSE IF AcceptedSrc(Head(srcs)) THEN Head(srcs)
    ELSE FirstAccepted(Tail(srcs))

\* faulty variant: the parent is searched before the block
ExtractCoverImageParentFirst(block) ==
    LET parent == block.before \o block.imgs \o block.after
    IN IF block.hasParent /\ FirstAccepted(parent) # NoneStr
       THEN FirstAccepted(parent)
       ELSE FirstAccepted(block.imgs)

\* _extract_cover_image
ExtractCoverImage(block) ==
    LET parent == block.before \o block.imgs \o block.after
    IN IF FirstAccepted(block.imgs) # NoneStr THEN FirstAccepted(block.imgs)
       ELSE IF block.hasParent THEN FirstAccepted(parent)
       ELSE NoneStr

\* ------------------------------------------------------------------------
\* Record assembler (_parse_item_block)
\* ------------------------------------------------------------------------
\* Python None for a record
NoneRec == [title |-> NoneStr]

\* _parse_item_block
ParseItemBlock(block) ==
    LET title == ExtractTitleFromBlock(block)
        status == ExtractStatusFromBlock(block)
        lib0 == ExtractLibrary(block)
        library == IF lib0 # NoneStr /\ lib0 # <<>>
                   THEN StripLabel(StripLabel(lib0, <<"doseogwan">>),
                                   <<"jageun", "doseogwan">>)
                   ELSE lib0
        available == StatusToAvailable(IF status = NoneStr \/ status = <<>>
                                       THEN <<>> ELSE status)
    IN IF title = NoneStr \/ title = <<>> THEN NoneRec
       ELSE [ title |-> title,
              author |-> block.author,
              library |-> library,
              available |-> available,
              call_number |-> block.call_number,
              cover_image |-> block.cover_image ]

\* ------------------------------------------------------------------------
\* Block locator (_find_item_blocks)
\* ------------------------------------------------------------------------
RECURSIVE FirstTierNoBreak(_)
\* faulty variant: the loop over the selectors goes on after a match
FirstTierNoBreak(tiers) ==
    IF tiers = <<>> THEN <<>>
    ELSE Head(tiers)
         \o SelectSeq(FirstTierNoBreak(Tail(tiers)),
                      LAMBDA el : \A i \in 1..Len(Head(tiers)) : Head(tiers)[i] # el)

\* tiers[k] = soup.select(selectors[k]) for the selectors, in order,
\* div.item.row, div.bookArea, dl.bookDataWrap, ul.listWrap > li, li
RECURSIVE FirstTier(_)
FirstTier(tiers) ==
    IF tiers = <<>> THEN <<>>
    ELSE IF Head(tiers) # <<>> THEN Head(tiers)
    ELSE FirstTier(Tail(tiers))

\* _find_item_blocks
FindItemBlocks(page) == FirstTier(page.tiers)

\* ------------------------------------------------------------------------
\* The documents on disk
\* ------------------------------------------------------------------------
Block(titleHits, nodes, before, author, raises) ==
    [ titleHits |-> titleHits, imgAlt |-> NoneStr, nodes |-> nodes,
      hasParent |-> before # <<>>, before |-> before, after |-> <<>>,
      author |-> author, call_number |-> NoneStr, cover_image |-> NoneStr,
      raises |-> raises ]

\* title T1 at library L1, "대출가능(비치자료)" in a plain <b>
BlkT1L1 ==
    Block(<< <<"12.", " ", "T1">> >>,
          << Node("span", "", <<"L1", "doseogwan">>),
             Node("b", "", <<"daechul", "ganeung", "(", "bichi", ")">>) >>,
          <<>>, <<"kim">>, FALSE)

\* title T2 at library L1 (labelled "도서관: L1도서관"), "대출중" in a span
BlkT2L1 ==
    Block(<< <<"T2">> >>,
          << Node("em", "", <<"doseogwan", ":", " ", "L1", "doseogwan">>),
             Node("span", "", <<"daechul", "jung">>) >>,
          <<>>, NoneStr, FALSE)

\* T1 at L1 again, other author, now "대출불가[대출중]"
BlkT1L1Later ==
    Block(<< <<"doseo", " ", "T1">>, <<"abc">> >>,
          << Node("span", "", <<"L1", "doseogwan">>),
             Node("b", "", <<"daechul", "bulga", "[", "daechul", "jung", "]">>) >>,
          <<>>, <<"lee">>, FALSE)

\* T3 at L2, status in an emphasis tag of the parent, next to "상호대차불가"
BlkT3L2 ==
    Block(<< <<"T3">> >>,
          << Node("span", "", <<"L2", "bungwan">>),
             Node("span", "", <<"sanghodaecha", "bulga">>) >>,
          << Node("b", "emp3", <<"daechul", "bulga">>) >>, NoneStr, FALSE)

\* T3 with no library and no status text at all
BlkT3NoLib ==
    Block(<< <<"T3">> >>, << Node("p", "", <<"abc">>) >>, <<>>, NoneStr, FALSE)

\* T3 with no library again, "예약가능" only, then available text in a span
BlkT3NoLibLater ==
    Block(<< <<"T3">> >>,
          << Node("span", "", <<"yeyak", "ganeung">>),
             Node("span", "", <<"daechul", "ganeung">>) >>,
          <<>>, <<"park">>, FALSE)

\* T2 with no library, secondary status fragment "예약가능" only
BlkT2Reserve ==
    Block(<< <<"T2">> >>, << Node("span", "", <<"yeyak", "ganeung", "(", "abc", ")">>) >>,
          <<>>, NoneStr, FALSE)

\* navigation noise: no title candidate with Hangul
BlkNoTitle ==
    Block(<< <<"abc">> >>, << Node("b", "", <<"daechul", "ganeung">>) >>,
          <<>>, NoneStr, FALSE)

\* a block whose extraction raises
BlkBroken ==
    Block(<< <<"T2">> >>, <<>>, <<>>, NoneStr, TRUE)

Page(tiers) == [exists |-> TRUE, readable |-> TRUE, tiers |-> tiers]

\* the file system: what each path value names
FS(path) ==
    CASE path = "A" -> Page(<< <<BlkT1L1, BlkT2L1>>, <<>>, <<>>, <<>>, <<BlkNoTitle>> >>)
      [] path = "B" -> Page(<< <<>>, <<BlkT1L1Later, BlkT3L2>>, <<>>, <<>>, <<>> >>)
      [] path = "C" -> Page(<< <<>>, <<>>, <<>>,
                               <<BlkT3NoLib, BlkNoTitle, BlkT3NoLibLater>>,
                               <<BlkT3NoLib, BlkNoTitle, BlkT3NoLibLater>> >>)
      [] path = "E" -> Page(<< <<>>, <<>>, <<>>, <<>>, <<BlkNoTitle>> >>)
      [] path = "F" -> Page(<< <<>>, <<>>, <<BlkT2Reserve, BlkBroken>>, <<>>, <<>> >>)
      [] path = "U" -> [exists |-> TRUE, readable |-> FALSE, tiers |-> <<>>]
      [] OTHER -> [exists |-> FALSE, readable |-> FALSE, tiers |-> <<>>]

\* path values of the input state: "" stands for None or the empty string,
\* "#123" for a value that is not a string (an int)
NoPath == ""
NonStrPath == "#123"
PathVals == {"A", "B", "C", "E", "F", "U", "M", NoPath, NonStrPath}

\* out_jsonl values: none, a writable target, a target that cannot be written
OutOk == "out/ok.jsonl"
OutBad == "out/bad.jsonl"
\* a writable target whose parent directories do not exist yet
OutNew == "new/dir/ok.jsonl"
OutVals == {NoPath, OutOk, OutBad, OutNew}

\* the content of the output file before the run
StaleLines == << [title |-> <<"stale">>] >>

\* the directories that exist before the run
InitialDirs == {"out"}

\* p.parent and its ancestors, what mkdir(parents=True) creates
ParentDirs(path) ==
    IF path = OutNew THEN {"new", "new/dir"}
    ELSE IF path \in {OutOk, OutBad} THEN {"out"}
    ELSE {}

\* no helper is called directly while parse_html runs
NoCall == [fn |-> "parse_html", arg |-> <<>>]

\* ------------------------------------------------------------------------
\* parse_html as a state machine
\* ------------------------------------------------------------------------
VARIABLES
    state,          \* the input dict: saved_html_paths, saved_html_path, html_path, out_jsonl
    pc,             \* "start", "page", "block", "save", "returned", "raised"
    html_paths,     \* the filtered path list
    idx,            \* enumerate(html_paths, start=1)
    item_blocks,    \* blocks of the page being parsed
    bi,             \* position in item_blocks
    page_parsed,
    all_parsed,
    errors,
    out,            \* the dict parse_html returns
    out_keys,       \* keys parse_html has set in out
    parsed_books,   \* out["parsed_books"]
    parse_success,  \* out["parse_success"]
    parse_error,    \* out["parse_error"]: the joined entries, <<>> for None
    saved,          \* out["saved"]
    jsonl_file,     \* lines of the file at out_jsonl
    dirs,           \* the directories that exist on the output side
    call,           \* a direct call of one helper: [fn, arg]
    ret             \* what that call returned

vars == << state, out, pc, html_paths, idx, item_blocks, bi, page_parsed, all_parsed,
           errors, out_keys, parsed_books, parse_success, parse_error, saved,
           jsonl_file, dirs, call, ret >>

\* faulty variant: pages numbered from 0
PageErrorZeroBased(n, kind, what) == [page |-> n - 1, kind |-> kind, what |-> what]

\* one entry of the " | "-joined error message
PageError(n, kind, what) == [page |-> n, kind |-> kind, what |-> what]
NoPathError == [page |-> 0, kind |-> "No html_path provided", what |-> NoPath]
NoItemsError == [page |-> 0, kind |-> "No item blocks parsed", what |-> NoPath]
SaveError(path) == [page |-> 0, kind |-> "SaveError", what |-> path]

\* out[k] = v
Put(d, k, v) == [ x \in DOMAIN d \cup {k} |-> IF x = k THEN v ELSE d[x] ]

PathLists == UNION { [1..n -> PathVals] : n \in 0..MaxPages }

Init ==
    /\ state \in [ saved_html_paths : PathLists,
                   saved_html_path : {NoPath, "A", "M"},
                   html_path : {NoPath, "B"},
                   out_jsonl : OutVals ]
    /\ Len(state.saved_html_paths) >= 2
          => state.saved_html_path = NoPath /\ state.html_path = NoPath
    /\ pc = "start"
    /\ html_paths = <<>>
    /\ idx = 0
    /\ item_blocks = <<>>
    /\ bi = 0
    /\ page_parsed = <<>>
    /\ all_parsed = <<>>
    /\ errors = <<>>
    /\ out = state
    /\ out_keys = {}
    /\ parsed_books = <<>>
    /\ parse_success = FALSE
    /\ parse_error = <<>>
    /\ saved = <<>>
    /\ jsonl_file = (IF state.out_jsonl = OutNew THEN <<>> ELSE StaleLines)
    /\ dirs = InitialDirs
    /\ call = NoCall
    /\ ret = NoneStr

\* faulty variant: html_path is preferred to saved_html_path
ResolvePathsHtmlFirst(st) ==
    LET single == IF st.html_path # NoPath THEN st.html_path
                  ELSE st.saved_html_path
        raw == IF st.saved_html_paths # <<>> THEN st.saved_html_paths
               ELSE <<single>>
    IN SelectSeq(raw, LAMBDA p : p # NoPath)

\* lines 469-470: saved_html_paths > saved_html_path > html_path, falsy removed
ResolvePaths(st) ==
    LET single == IF st.saved_html_path # NoPath THEN st.saved_html_path
                  ELSE st.html_path
        raw == IF st.saved_html_paths # <<>> THEN st.saved_html_paths
               ELSE <<single>>
    IN SelectSeq(raw, LAMBDA p : p # NoPath)

\* lines 466-476: no path given
StartNoPath ==
    /\ pc = "start"
    /\ ResolvePaths(state) = <<>>
    /\ html_paths' = <<>>
    /\ parse_success' = FALSE
    /\ parse_error' = <<NoPathError>>
    /\ parsed_books' = <<>>
    /\ out' = Put(Put(Put(out, "parse_success", FALSE),
                       "parse_error", <<NoPathError>>),
                   "parsed_books", <<>>)
    /\ out_keys' = {"parse_success", "parse_error", "parsed_books"}
    /\ pc' = "returned"
    /\ UNCHANGED << call, ret, dirs, state, idx, item_blocks, bi, page_parsed, all_parsed, errors,
                    saved, jsonl_file >>

\* lines 466-482: paths given, the loop starts
StartPages ==
    /\ pc = "start"
    /\ ResolvePaths(state) # <<>>
    /\ html_paths' = ResolvePaths(state)
    /\ all_parsed' = <<>>
    /\ errors' = <<>>
    /\ idx' = 1
    /\ pc' = "page"
    /\ UNCHANGED << call, ret, dirs, state, out, item_blocks, bi, page_parsed, out_keys, parsed_books,
                    parse_success, parse_error, saved, jsonl_file >>

\* line 483: Path(html_path) of a value that is no str raises TypeError,
\* outside the try block
PathTypeError ==
    /\ pc = "page"
    /\ idx <= Len(html_paths)
    /\ html_paths[idx] = NonStrPath
    /\ pc' = "raised"
    /\ UNCHANGED << call, ret, dirs, state, out, html_paths, idx, item_blocks, bi, page_parsed,
                    all_parsed, errors, out_keys, parsed_books, parse_success,
                    parse_error, saved, jsonl_file >>

\* faulty variant: break for continue
PageNotFoundAborts ==
    /\ pc = "page"
    /\ idx <= Len(html_paths)
    /\ html_paths[idx] # NonStrPath
    /\ ~FS(html_paths[idx]).exists
    /\ errors' = Append(errors, [page |-> idx, kind |-> "HTML file not found",
                                 what |-> html_paths[idx]])
    /\ idx' = Len(html_paths) + 1
    /\ UNCHANGED << call, ret, dirs, state, out, pc, html_paths, item_blocks, bi, page_parsed, all_parsed,
                    out_keys, parsed_books, parse_success, parse_error, saved,
                    jsonl_file >>

\* lines 484-486: the file does not exist
PageNotFound ==
    /\ pc = "page"
    /\ idx <= Len(html_paths)
    /\ html_paths[idx] # NonStrPath
    /\ ~FS(html_paths[idx]).exists
    /\ errors' = Append(errors, PageError(idx, "HTML file not found", html_paths[idx]))
    /\ idx' = idx + 1
    /\ UNCHANGED << call, ret, dirs, state, out, pc, html_paths, item_blocks, bi, page_parsed, all_parsed,
                    out_keys, parsed_books, parse_success, parse_error, saved,
                    jsonl_file >>

\* lines 488-490, 509-511: reading the file raises
PageReadError ==
    /\ pc = "page"
    /\ idx <= Len(html_paths)
    /\ html_paths[idx] # NonStrPath
    /\ FS(html_paths[idx]).exists
    /\ ~FS(html_paths[idx]).readable
    /\ errors' = Append(errors, PageError(idx, "Parse error", "read"))
    /\ idx' = idx + 1
    /\ UNCHANGED << call, ret, dirs, state, out, pc, html_paths, item_blocks, bi, page_parsed, all_parsed,
                    out_keys, parsed_books, parse_success, parse_error, saved,
                    jsonl_file >>

\* lines 488-493: the page is read and its item blocks located
PageOpen ==
    /\ pc = "page"
    /\ idx <= Len(html_paths)
    /\ html_paths[idx] # NonStrPath
    /\ FS(html_paths[idx]).exists
    /\ FS(html_paths[idx]).readable
    /\ item_blocks' = FindItemBlocks(FS(html_paths[idx]))
    /\ page_parsed' = <<>>
    /\ bi' = 1
    /\ pc' = "block"
    /\ UNCHANGED << call, ret, dirs, state, out, html_paths, idx, all_parsed, errors, out_keys,
                    parsed_books, parse_success, parse_error, saved, jsonl_file >>

\* faulty variant: a block without a title is reported as a page error
ParseBlockReportsUntitled ==
    /\ pc = "block"
    /\ bi <= Len(item_blocks)
    /\ ~item_blocks[bi].raises
    /\ LET rec == ParseItemBlock(item_blocks[bi])
       IN /\ page_parsed' = IF rec = NoneRec THEN page_parsed
                            ELSE Append(page_parsed, rec)
          /\ errors' = IF rec = NoneRec
                       THEN Append(errors, [page |-> idx, kind |-> "No title",
                                            what |-> html_paths[idx]])
                       ELSE errors
    /\ bi' = bi + 1
    /\ UNCHANGED << call, ret, dirs, state, out, pc, html_paths, idx, item_blocks,
                    all_parsed, out_keys, parsed_books, parse_success,
                    parse_error, saved, jsonl_file >>

\* lines 495-504: one block becomes a record, or is dropped
ParseBlock ==
    /\ pc = "block"
    /\ bi <= Len(item_blocks)
    /\ ~item_blocks[bi].raises
    /\ LET rec == ParseItemBlock(item_blocks[bi])
       IN page_parsed' = IF rec = NoneRec THEN page_parsed
                         ELSE Append(page_parsed, rec)
    /\ bi' = bi + 1
    /\ UNCHANGED << call, ret, dirs, state, out, pc, html_paths, idx, item_blocks, all_parsed, errors,
                    out_keys, parsed_books, parse_success, parse_error, saved,
                    jsonl_file >>

\* faulty variant: records are appended to all_parsed as they are made
BlockRaisesKeepsPartial ==
    /\ pc = "block"
    /\ bi <= Len(item_blocks)
    /\ item_blocks[bi].raises
    /\ errors' = Append(errors, [page |-> idx, kind |-> "Parse error", what |-> "block"])
    /\ all_parsed' = all_parsed \o page_parsed
    /\ idx' = idx + 1
    /\ pc' = "page"
    /\ UNCHANGED << call, ret, dirs, state, out, html_paths, item_blocks, bi, page_parsed,
                    out_keys, parsed_books, parse_success, parse_error, saved,
                    jsonl_file >>

\* lines 496, 509-511: the extraction of a block raises
BlockRaises ==
    /\ pc = "block"
    /\ bi <= Len(item_blocks)
    /\ item_blocks[bi].raises
    /\ errors' = Append(errors, PageError(idx, "Parse error", "block"))
    /\ idx' = idx + 1
    /\ pc' = "page"
    /\ UNCHANGED << call, ret, dirs, state, out, html_paths, item_blocks, bi, page_parsed, all_parsed,
                    out_keys, parsed_books, parse_success, parse_error, saved,
                    jsonl_file >>

\* lines 506-507: the page is done
PageDone ==
    /\ pc = "block"
    /\ bi > Len(item_blocks)
    /\ all_parsed' = all_parsed \o page_parsed
    /\ idx' = idx + 1
    /\ pc' = "page"
    /\ UNCHANGED << call, ret, dirs, state, out, html_paths, item_blocks, bi, page_parsed, errors,
                    out_keys, parsed_books, parse_success, parse_error, saved,
                    jsonl_file >>

\* faulty variant: the library is left out of the key
KeyTitleOnly(rec) == <<rec.title>>

\* key = (rec.get("title"), rec.get("library"))
Key(rec) == <<rec.title, rec.library>>

RECURSIVE DedupFromSkipping(_, _)
\* faulty variant: the record after a dropped duplicate is kept unchecked
\* (the list is changed while it is iterated)
DedupFromSkipping(recs, seen_keys) ==
    IF recs = <<>> THEN <<>>
    ELSE IF Key(Head(recs)) \notin seen_keys
         THEN <<Head(recs)>>
              \o DedupFromSkipping(Tail(recs), seen_keys \cup {Key(Head(recs))})
         ELSE IF Len(recs) = 1 THEN <<>>
         ELSE <<recs[2]>>
              \o DedupFromSkipping(Tail(Tail(recs)), seen_keys \cup {Key(recs[2])})

RECURSIVE DedupFrom(_, _)
\* lines 514-524: keep a record unless its key was seen
DedupFrom(recs, seen_keys) ==
    IF recs = <<>> THEN <<>>
    ELSE IF Key(Head(recs)) \notin seen_keys
         THEN <<Head(recs)>> \o DedupFrom(Tail(recs), seen_keys \cup {Key(Head(recs))})
         ELSE DedupFrom(Tail(recs), seen_keys)

Dedup(recs) == DedupFrom(recs, {})

\* faulty variant: >= for >
ParseSuccessOffByOne(unique_parsed) == Len(unique_parsed) >= 0

\* line 531: out["parse_success"] = len(unique_parsed) > 0
ParseSuccess(unique_parsed) == Len(unique_parsed) > 0

\* faulty variant: no explanation when nothing was parsed
ResultErrorPagesOnly(errs, success) == errs

\* lines 533-536: the joined page errors, else None or the explanation
ResultError(errs, success) ==
    IF errs # <<>> THEN errs
    ELSE IF success THEN <<>>
    ELSE <<NoItemsError>>

\* faulty variant: the result fields are written into the input dict itself
AggregateInPlace ==
    /\ pc = "page"
    /\ idx > Len(html_paths)
    /\ LET unique_parsed == Dedup(all_parsed)
       IN /\ parsed_books' = unique_parsed
          /\ parse_success' = ParseSuccess(unique_parsed)
          /\ parse_error' = ResultError(errors, ParseSuccess(unique_parsed))
    /\ out' = Put(Put(Put(out, "parsed_books", Dedup(all_parsed)),
                       "parse_success", ParseSuccess(Dedup(all_parsed))),
                   "parse_error", ResultError(errors, ParseSuccess(Dedup(all_parsed))))
    /\ state' = out'
    /\ out_keys' = {"parsed_books", "parse_success", "parse_error"}
    /\ pc' = "save"
    /\ UNCHANGED << call, ret, dirs, html_paths, idx, item_blocks, bi, page_parsed,
                    all_parsed, errors, saved, jsonl_file >>

\* lines 513-536: dedup and the result fields
Aggregate ==
    /\ pc = "page"
    /\ idx > Len(html_paths)
    /\ LET unique_parsed == Dedup(all_parsed)
       IN /\ parsed_books' = unique_parsed
          /\ parse_success' = ParseSuccess(unique_parsed)
          /\ parse_error' = ResultError(errors, ParseSuccess(unique_parsed))
    /\ out' = Put(Put(Put(out, "parsed_books", Dedup(all_parsed)),
                       "parse_success", ParseSuccess(Dedup(all_parsed))),
                   "parse_error", ResultError(errors, ParseSuccess(Dedup(all_parsed))))
    /\ out_keys' = {"parsed_books", "parse_success", "parse_error"}
    /\ pc' = "save"
    /\ UNCHANGED << call, ret, dirs, state, html_paths, idx, item_blocks, bi, page_parsed,
                    all_parsed, errors, saved, jsonl_file >>

\* lines 539-554 with no out_jsonl
SaveNothing ==
    /\ pc = "save"
    /\ state.out_jsonl = NoPath
    /\ saved' = <<>>
    /\ out' = Put(out, "saved", <<>>)
    /\ out_keys' = out_keys \cup {"saved"}
    /\ pc' = "returned"
    /\ UNCHANGED << call, ret, dirs, state, html_paths, idx, item_blocks, bi, page_parsed,
                    all_parsed, errors, parsed_books, parse_success, parse_error,
                    jsonl_file >>

\* faulty variant: the file is opened with mode "a"
DumpJsonlAppends(path, records, lines) == lines \o records

\* lines 557-563: the parent directories are made, the file is opened
\* with mode "w" and gets one json.dumps line per record
DumpJsonl(path, records, lines) == records

\* lines 539-545, 552-563: the file is (re)written, one line per record
SaveJsonl ==
    /\ pc = "save"
    /\ state.out_jsonl \in {OutOk, OutNew}
    /\ dirs' = dirs \cup ParentDirs(state.out_jsonl)
    /\ jsonl_file' = DumpJsonl(state.out_jsonl, parsed_books, jsonl_file)
    /\ saved' = << <<"jsonl", state.out_jsonl>> >>
    /\ out' = Put(out, "saved", << <<"jsonl", state.out_jsonl>> >>)
    /\ out_keys' = out_keys \cup {"saved"}
    /\ pc' = "returned"
    /\ UNCHANGED << call, ret, state, html_paths, idx, item_blocks, bi, page_parsed,
                    all_parsed, errors, parsed_books, parse_success, parse_error >>

\* faulty variant: the save error replaces the message
SaveFailsReplaces ==
    /\ pc = "save"
    /\ state.out_jsonl = OutBad
    /\ parse_error' = << [page |-> 0, kind |-> "SaveError", what |-> state.out_jsonl] >>
    /\ saved' = <<>>
    /\ out' = Put(Put(out, "parse_error",
                       << [page |-> 0, kind |-> "SaveError", what |-> state.out_jsonl] >>),
                   "saved", <<>>)
    /\ out_keys' = out_keys \cup {"saved"}
    /\ pc' = "returned"
    /\ UNCHANGED << call, ret, dirs, state, html_paths, idx, item_blocks, bi, page_parsed,
                    all_parsed, errors, parsed_books, parse_success, jsonl_file >>

\* lines 546-552: _dump_jsonl raises, before the file is opened (the file
\* is untouched) or after k lines were written to the truncated file
SaveFails ==
    /\ pc = "save"
    /\ state.out_jsonl = OutBad
    /\ parse_error' = Append(parse_error, SaveError(state.out_jsonl))
    /\ saved' = <<>>
    /\ out' = Put(Put(out, "parse_error",
                       Append(out["parse_error"], SaveError(state.out_jsonl))),
                   "saved", <<>>)
    /\ out_keys' = out_keys \cup {"saved"}
    /\ \/ jsonl_file' = jsonl_file
       \/ \E k \in 0..Len(parsed_books) : jsonl_file' = SubSeq(parsed_books, 1, k)
    /\ pc' = "returned"
    /\ UNCHANGED << call, ret, dirs, state, html_paths, idx, item_blocks, bi, page_parsed,
                    all_parsed, errors, parsed_books, parse_success >>

Next ==
    \/ StartNoPath
    \/ StartPages
    \/ PathTypeError
    \/ PageNotFound
    \/ PageReadError
    \/ PageOpen
    \/ ParseBlock
    \/ BlockRaises
    \/ PageDone
    \/ Aggregate
    \/ SaveNothing
    \/ SaveJsonl
    \/ SaveFails

Spec == Init /\ [][Next]_vars

\* ------------------------------------------------------------------------
\* parse_html on an input state that holds more than the path keys
\* ------------------------------------------------------------------------
\* the keys parse_html reads
CarryBases ==
    [ saved_html_paths : UNION { [1..n -> PathVals] : n \in 0..1 },
      saved_html_path : {NoPath, "A"},
      html_path : {NoPath},
      out_jsonl : OutVals ]

\* the other keys of the input: those of the pipeline (place, title) and
\* results left by an earlier run
CarryExtras ==
    { [place |-> "songpa", title |-> "T1"],
      [place |-> "gangnam", title |-> "T2", ok |-> TRUE],
      [place |-> "songpa", title |-> "T1", parse_success |-> "stale",
       parse_error |-> "stale", parsed_books |-> "stale", saved |-> "stale"] }

\* {**base, **extra}
Merge(base, extra) ==
    [ k \in DOMAIN base \cup DOMAIN extra |->
        IF k \in DOMAIN extra THEN extra[k] ELSE base[k] ]

InitCarry ==
    /\ state \in { Merge(base, extra) : base \in CarryBases, extra \in CarryExtras }
    /\ out = state
    /\ pc = "start"
    /\ html_paths = <<>>
    /\ idx = 0
    /\ item_blocks = <<>>
    /\ bi = 0
    /\ page_parsed = <<>>
    /\ all_parsed = <<>>
    /\ errors = <<>>
    /\ out_keys = {}
    /\ parsed_books = <<>>
    /\ parse_success = FALSE
    /\ parse_error = <<>>
    /\ saved = <<>>
    /\ jsonl_file = (IF state.out_jsonl = OutNew THEN <<>> ELSE StaleLines)
    /\ dirs = InitialDirs
    /\ call = NoCall
    /\ ret = NoneStr

SpecCarry == InitCarry /\ [][Next]_vars

\* ------------------------------------------------------------------------
\* The helpers called directly, one call per behaviour
\* ------------------------------------------------------------------------
MaxEls == 3
MaxHits == 3
MaxTags == 2

\* What the five selectors can say of one element: a div may carry the
\* classes "item row" and "bookArea", a dl the class bookDataWrap, and an
\* li that is a child of ul.listWrap is an li as well.
MatchSets == { {}, {1}, {2}, {1, 2}, {3}, {4, 5}, {5} }

\* a document: its elements in document order, each given by the
\* selectors it matches; an element is identified by its position
Documents == UNION { [1..n -> MatchSets] : n \in 0..MaxEls }

\* soup.select(selectors[k]): the matching elements in document order
SelectCss(doc, k) ==
    SelectSeq([i \in 1..Len(doc) |-> i], LAMBDA i : k \in doc[i])

Soup(doc) ==
    Page(<< SelectCss(doc, 1), SelectCss(doc, 2), SelectCss(doc, 3),
            SelectCss(doc, 4), SelectCss(doc, 5) >>)

\* texts of the elements the title selectors hit
TitleTexts ==
    { <<"12.", " ", "T1">>, <<"doseo", " ", "T2">>, <<"T3">>, <<"lorem30">>,
      <<"abc">>, <<"12.">>, <<" ">> }

AltTexts == { NoneStr, <<"T3">>, <<"abc">> }

TitleBlocks ==
    { [Block(hits, <<>>, <<>>, NoneStr, FALSE) EXCEPT !.imgAlt = alt] :
        hits \in UNION { [1..n -> TitleTexts] : n \in 0..MaxHits },
        alt \in AltTexts }

\* the status-bearing tags seen on the result pages, and some plain text
TagSamples ==
    { Node("b", "", <<"daechul", "bulga", "[", "daechul", "jung", "]">>),
      Node("b", "", <<"daechul", "ganeung">>),
      Node("b", "", <<"daechul", "bulga">>),
      Node("b", "", <<"daechul", "jung", "[", "bichi", "jung", "]">>),
      Node("b", "", ExclILL),
      Node("strong", "", <<"daechul", "jung", "[", "yeyak", "jung", "]">>),
      Node("strong", "", <<"daechul", "bulga", "[", "daechul", "ganeung", "]">>),
      Node("strong", "", <<"daechul", "ganeung", "[", "daechul", "bulga", "]">>),
      Node("b", "emp3", <<"daechul", "ganeung", "[", "bichi", "jung", "]">>),
      Node("b", "emp3", <<"daechul", "bulga">>),
      Node("span", "status", <<"daechul", "jung">>),
      Node("span", "emp2", <<"yeyak", "ganeung">>),
      Node("em", "state", ExclILL),
      Node("span", "", ExclILL),
      Node("span", "", ExclReserve),
      Node("span", "", <<"daechul", "ganeung">>),
      Node("span", "", <<"yeyak", "ganeung", "(", "abc", ")">>),
      Node("em", "", <<"daechul", "jung">>),
      Node("span", "", <<"daechul", "bulga">>),
      Node("span", "", <<"lorem30", " ", "yeyak", "ganeung">>),
      Node("p", "", <<"abc">>),
      Node("p", "", <<"banapyejeongil">>) }

\* the other tags of the parent element, <<>> when the block has no parent
ParentSamples ==
    { <<>>,
      << Node("p", "", <<"abc">>) >>,
      << Node("b", "emp3", <<"daechul", "ganeung">>) >>,
      << Node("b", "", <<"daechul", "jung">>) >>,
      << Node("span", "", ExclILL) >> }

StatusBlocks ==
    { Block(<<>>, nodes, before, NoneStr, FALSE) :
        nodes \in UNION { [1..n -> TagSamples] : n \in 0..MaxTags },
        before \in ParentSamples }

\* em/span (and one p) tags with and without a library name
LibrarySamples ==
    { Node("span", "", <<"L1", "doseogwan">>),
      Node("em", "", <<"L2", "doseogwan">>),
      Node("span", "", <<"L1", "jageun", "doseogwan">>),
      Node("span", "", <<"doseogwan", ":", " ", "L1", "doseogwan">>),
      Node("em", "", <<"L1", "doseogwan", " ", "daechul", "ganeung">>),
      Node("span", "", <<"lorem30", "lorem30", "doseogwan">>),
      Node("span", "", <<"abc">>),
      Node("em", "", <<" ">>),
      Node("p", "", <<"L2", "lorem30", "bungwan">>) }

LibraryBlocks ==
    { Block(<< <<"T1">> >>, nodes, <<>>, NoneStr, FALSE) :
        nodes \in UNION { [1..n -> LibrarySamples] : n \in 0..MaxTags } }

\* span texts of the info panel and of the third descriptor item
CallNoSpans ==
    { <<"2", "0", "2", "4", "-", "1", "0", "-", "2", "7">>,
      <<"8", "1", "3", ".", "6", "-", "gim", "1", "7", "siot">>,
      <<"8", "1", "3", "-", "gim", "1", "7">>,
      <<"keungeulja", " ", "8", "4", "8", "-", "sa", "2">>,
      <<"abc">> }

\* the text of the block outside those spans
CallNoRests ==
    { <<>>,
      <<"abc", " ", "2", "0", "2", "4", "-", "1", "0", "-", "2", "7", " ", "sa">>,
      <<"cheonggugiho", ":", " ", "8", "0", "8", ".", "9", "-", "sa", "1", "4",
        " ", "deungnokbeonho", " ", "abc">>,
      <<"cheonggugiho", " ", "2", "0", "2", "4", "-", "1", "0", "-", "2", "7">>,
      <<"abc", " ", "cheonggugiho", ":">>,
      <<"jeomjadoseo", " ", "8", "0", "8", ".", "9", "-", "sa", "1", "4", "sa",
        "-", "5", "6">>,
      <<"1", "2", "3", "4", "5", "-", "gim", "-">> }

\* block argument of _extract_call_number: its text holds the span texts
CallNoBlock(info02, third, rest) ==
    [info02 |-> info02, third |-> third,
     text |-> JoinSp(info02 \o third \o <<rest>>)]

CallNoBlocks ==
    { CallNoBlock(info02, third, rest) :
        info02 \in UNION { [1..n -> CallNoSpans] : n \in 0..MaxTags },
        third \in UNION { [1..n -> CallNoSpans] : n \in 0..1 },
        rest \in CallNoRests }

\* src attributes of img tags
CoverSrcs ==
    { <<>>,
      <<"http", "://", "host", "/", "c1", ".jpg">>,
      <<"https", "://", "host", "/", "c2", ".jpg">>,
      <<"/", "img", "/", "c1", ".jpg">>,
      <<"http", "://", "host", "/", "NOIMG", ".gif">>,
      <<"http", "://", "host", "/", "no-image", ".png">>,
      <<"/", "img", "/", "noimg", ".gif">>,
      <<"HTTP", "://", "host", "/", "c1", ".jpg">> }

CoverBlock(imgs, hasParent, before, after) ==
    [imgs |-> imgs, hasParent |-> hasParent, before |-> before, after |-> after]

CoverBlocks ==
    LET few == UNION { [1..n -> CoverSrcs] : n \in 0..1 }
        imgLists == UNION { [1..n -> CoverSrcs] : n \in 0..MaxTags }
    IN { CoverBlock(imgs, FALSE, <<>>, <<>>) : imgs \in imgLists }
       \cup { CoverBlock(imgs, TRUE, before, after) :
                 imgs \in imgLists, before \in few,
                 after \in { <<>>, << <<"https", "://", "host", "/", "c2", ".jpg">> >> } }

\* texts of an info01 container or of the span of a second descriptor item
AuthorPlainTexts ==
    { <<"hong">>,
      <<"hong", " ", "jieum">>,
      <<"jieum">>,
      <<"abc">>,
      <<"2", "hong">>,
      <<"lorem30", "lorem19", " ", "geul-geurim">> }

\* texts of the spans of an author-classed tag
AuthorSpanTexts ==
    { <<"hong">>,
      <<"jeoja", ":", " ", "hong", " ", "jeo">>,
      <<"jakga", " ", ":", " ", "lorem30", "lorem19", " ", "jieum">>,
      <<"jeoja", ":", " ", "lorem30", "lorem30">> }

\* the text of the block outside those tags
AuthorRests ==
    { <<>>,
      <<"abc", " ", "jieuni", ":", " ", "hong", " ", "geurim", " ", "chulpansa",
        " ", "abc">>,
      <<"jeoja", ":", " ", "jieum">>,
      <<"geul", ":", " ", "abc">> }

\* block argument of _extract_author: its text holds the texts of its tags
AuthorBlock(info01, second, spans, rest) ==
    [info01 |-> info01, second |-> second, spans |-> spans,
     text |-> JoinSp(info01 \o second \o spans \o <<rest>>)]

AuthorBlocks ==
    LET few == UNION { [1..n -> AuthorPlainTexts] : n \in 0..1 }
    IN { AuthorBlock(info01, second, spans, rest) :
           info01 \in few, second \in few,
           spans \in UNION { [1..n -> AuthorSpanTexts] : n \in 0..MaxTags },
           rest \in AuthorRests }

\* the calls of one helper on each of its inputs
Calls(fn, args) == { [fn |-> fn, arg |-> a] : a \in args }

InitExtract ==
    /\ \/ call \in Calls("_extract_call_number", CallNoBlocks)
       \/ call \in Calls("_extract_author", AuthorBlocks)
       \/ call \in Calls("_extract_cover_image", CoverBlocks)
       \/ call \in Calls("_find_item_blocks", Documents)
       \/ call \in Calls("_extract_title_from_block", TitleBlocks)
       \/ call \in Calls("_extract_status_from_block", StatusBlocks)
       \/ call \in Calls("_extract_library", LibraryBlocks)
       \/ call \in Calls("_parse_item_block", LibraryBlocks)
    /\ ret = NoneStr
    /\ pc = "call"
    /\ state = [ saved_html_paths |-> <<>>, saved_html_path |-> NoPath,
                 html_path |-> NoPath, out_jsonl |-> NoPath ]
    /\ html_paths = <<>>
    /\ idx = 0
    /\ item_blocks = <<>>
    /\ bi = 0
    /\ page_parsed = <<>>
    /\ all_parsed = <<>>
    /\ errors = <<>>
    /\ out = state
    /\ out_keys = {}
    /\ parsed_books = <<>>
    /\ parse_success = FALSE
    /\ parse_error = <<>>
    /\ saved = <<>>
    /\ jsonl_file = StaleLines
    /\ dirs = InitialDirs

CallFindItemBlocks ==
    /\ pc = "call"
    /\ call.fn = "_find_item_blocks"
    /\ ret' = FindItemBlocks(Soup(call.arg))
    /\ pc' = "done"
    /\ UNCHANGED << call, dirs, state, out, html_paths, idx, item_blocks, bi,
                    page_parsed, all_parsed, errors, out_keys, parsed_books,
                    parse_success, parse_error, saved, jsonl_file >>

CallExtractTitle ==
    /\ pc = "call"
    /\ call.fn = "_extract_title_from_block"
    /\ ret' = ExtractTitleFromBlock(call.arg)
    /\ pc' = "done"
    /\ UNCHANGED << call, dirs, state, out, html_paths, idx, item_blocks, bi,
                    page_parsed, all_parsed, errors, out_keys, parsed_books,
                    parse_success, parse_error, saved, jsonl_file >>

CallExtractStatus ==
    /\ pc = "call"
    /\ call.fn = "_extract_status_from_block"
    /\ ret' = ExtractStatusFromBlock(call.arg)
    /\ pc' = "done"
    /\ UNCHANGED << call, dirs, state, out, html_paths, idx, item_blocks, bi,
                    page_parsed, all_parsed, errors, out_keys, parsed_books,
                    parse_success, parse_error, saved, jsonl_file >>

\* what a helper call leaves alone
parserVars == << dirs, state, out, html_paths, idx, item_blocks, bi, page_parsed,
                 all_parsed, errors, out_keys, parsed_books, parse_success,
                 parse_error, saved, jsonl_file >>

CallExtractLibrary ==
    /\ pc = "call"
    /\ call.fn = "_extract_library"
    /\ ret' = ExtractLibrary(call.arg)
    /\ pc' = "done"
    /\ UNCHANGED << call, parserVars >>

CallParseItemBlock ==
    /\ pc = "call"
    /\ call.fn = "_parse_item_block"
    /\ ret' = ParseItemBlock(call.arg)
    /\ pc' = "done"
    /\ UNCHANGED << call, parserVars >>

CallExtractCallNumber ==
    /\ pc = "call"
    /\ call.fn = "_extract_call_number"
    /\ ret' = ExtractCallNumber(call.arg)
    /\ pc' = "done"
    /\ UNCHANGED << call, parserVars >>

CallExtractCoverImage ==
    /\ pc = "call"
    /\ call.fn = "_extract_cover_image"
    /\ ret' = ExtractCoverImage(call.arg)
    /\ pc' = "done"
    /\ UNCHANGED << call, parserVars >>

CallExtractAuthor ==
    /\ pc = "call"
    /\ call.fn = "_extract_author"
    /\ ret' = ExtractAuthor(call.arg)
    /\ pc' = "done"
    /\ UNCHANGED << call, parserVars >>

NextExtract ==
    \/ CallExtractAuthor
    \/ CallExtractCallNumber
    \/ CallExtractCoverImage
    \/ CallFindItemBlocks
    \/ CallExtractTitle
    \/ CallExtractStatus
    \/ CallExtractLibrary
    \/ CallParseItemBlock

SpecExtract == InitExtract /\ [][NextExtract]_vars

\* ------------------------------------------------------------------------
\* What the properties below refer to
\* ------------------------------------------------------------------------
Range(seq) == { seq[i] : i \in 1..Len(seq) }

\* two records are the same logical entity
SameEntity(a, b) == a.title = b.title /\ a.library = b.library

\* the page at this path fails inside the try block
RaisesInTry(path) ==
    /\ FS(path).exists
    /\ \/ ~FS(path).readable
       \/ \E i \in 1..Len(FindItemBlocks(FS(path))) : FindItemBlocks(FS(path))[i].raises

\* the page at this path is parsed to the end
PageOk(path) == FS(path).exists /\ ~RaisesInTry(path)

RECURSIVE BlockRecords(_)
\* the records of a list of blocks, in block order, untitled blocks dropped
BlockRecords(blocks) ==
    IF blocks = <<>> THEN <<>>
    ELSE (IF ParseItemBlock(Head(blocks)) = NoneRec THEN <<>>
          ELSE <<ParseItemBlock(Head(blocks))>>) \o BlockRecords(Tail(blocks))

\* the record list of each page: empty for a page that is missing or fails
PageYields ==
    [ path \in PathVals |->
        IF PageOk(path) THEN BlockRecords(FindItemBlocks(FS(path))) ELSE <<>> ]

PageYield(path) == PageYields[path]

\* the records made from the blocks that precede the first raising block
PartialYields ==
    [ path \in PathVals |->
        LET blocks == FindItemBlocks(FS(path))
            bad == { i \in 1..Len(blocks) : blocks[i].raises }
        IN IF ~FS(path).exists \/ ~FS(path).readable \/ bad = {} THEN <<>>
           ELSE BlockRecords(SubSeq(blocks, 1,
                                    (CHOOSE i \in bad : \A j \in bad : i <= j) - 1)) ]

PartialRecords(path) == PartialYields[path]

RECURSIVE ConcatYield(_)
\* the per-page record lists, concatenated in page order
ConcatYield(paths) ==
    IF paths = <<>> THEN <<>> ELSE PageYield(Head(paths)) \o ConcatYield(Tail(paths))

RECURSIVE FirstOccurrences(_, _)
\* the records of recs[1..n] that no earlier record is the same entity as
FirstOccurrences(recs, n) ==
    IF n = 0 THEN <<>>
    ELSE IF \E j \in 1..(n - 1) : SameEntity(recs[j], recs[n])
         THEN FirstOccurrences(recs, n - 1)
         ELSE Append(FirstOccurrences(recs, n - 1), recs[n])

\* parse_html has set the result fields after processing pages
Aggregated == pc \in {"save", "returned"} /\ html_paths # <<>>

\* ------------------------------------------------------------------------
\* Properties
\* ------------------------------------------------------------------------
\* C1: parsed_books holds no two records with the same (title, library), a
\* null library counting as a value, and it is exactly the first-occurrence
\* subsequence of the per-page record lists concatenated in page order, so the
\* surviving record carries the fields of the first occurrence.
C1_DedupFirstOccurrence ==
    Aggregated =>
        /\ \A i, j \in 1..Len(parsed_books) :
              i # j => ~SameEntity(parsed_books[i], parsed_books[j])
        /\ LET all == ConcatYield(html_paths)
           IN parsed_books = FirstOccurrences(all, Len(all))

\* a later duplicate that differs from the first occurrence was dropped, and
\* two records that share the title but not the (null) library both survive
C1_Witness ==
    /\ pc = "returned"
    /\ \E i, j \in 1..Len(all_parsed) :
          /\ i < j
          /\ SameEntity(all_parsed[i], all_parsed[j])
          /\ all_parsed[i].available # all_parsed[j].available
          /\ all_parsed[i] \in Range(parsed_books)
          /\ all_parsed[j] \notin Range(parsed_books)
    /\ \E a, b \in Range(parsed_books) :
          a.title = b.title /\ a.library = NoneStr /\ b.library # NoneStr

\* C2: on every return path parse_success is true exactly when parsed_books
\* holds at least one record.
C2_SuccessIffRecords ==
    "parse_success" \in out_keys => (parse_success <=> Len(parsed_books) >= 1)

\* a partial failure: some page failed, the write failed, records survive
C2_Witness ==
    /\ pc = "returned"
    /\ parse_success
    /\ errors # <<>>
    /\ state.out_jsonl = OutBad

\* C3: whenever the assembler produces a record, its available flag is true
\* exactly when the status resolved for the block (the empty string when none
\* was resolved) contains the keyword 대출가능, and the aggregator hands the
\* records on unchanged.
C3_AvailableFromStatus ==
    [][ /\ (pc = "block" /\ Len(page_parsed') = Len(page_parsed) + 1) =>
              LET rec == page_parsed'[Len(page_parsed')]
                  status == ExtractStatusFromBlock(item_blocks[bi])
              IN rec.available =
                    Contains(IF status = NoneStr THEN <<>> ELSE status, KwAvail)
        /\ Range(all_parsed') \subseteq Range(all_parsed) \cup Range(page_parsed)
        /\ Range(parsed_books') \subseteq Range(all_parsed')
      ]_vars

\* a record was just produced from a block whose status 예약가능 holds 가능
\* but not the keyword, and an available record sits next to it
C3_Witness ==
    /\ pc = "block"
    /\ bi > 1
    /\ page_parsed # <<>>
    /\ ExtractStatusFromBlock(item_blocks[bi - 1]) = <<"yeyak", "ganeung">>
    /\ ~page_parsed[Len(page_parsed)].available
    /\ \E rec \in Range(all_parsed) : rec.available

\* the fields of a BookRecord
BookRecordFields ==
    {"title", "author", "library", "status_raw", "available", "call_number",
     "cover_image"}

\* C4: every record of parsed_books, and every line written for it, has
\* exactly the BookRecord fields, status_raw among them.
C4_RecordFields ==
    \A rec \in Range(parsed_books) \cup (IF saved # <<>> THEN Range(jsonl_file) ELSE {}) :
        DOMAIN rec = BookRecordFields

\* the positions of the error entries recorded for page n
ErrorsFor(n) == { i \in 1..Len(errors) : errors[i].page = n }

\* the paths among these whose file exists
Present(paths) == SelectSeq(paths, LAMBDA q : FS(q).exists)

\* C5: a missing page leaves exactly one "not found" error for its position and
\* contributes no record, the other pages contribute what they would have
\* contributed without it, and a batch of one missing page returns no record,
\* parse_success false and a parse_error holding "not found".
C5_MissingPageSkipped ==
    /\ \A n \in 1..Len(html_paths) :
          (n < idx /\ ~FS(html_paths[n]).exists) =>
              /\ Cardinality(ErrorsFor(n)) = 1
              /\ \A i \in ErrorsFor(n) :
                    /\ errors[i].kind = "HTML file not found"
                    /\ errors[i].what = html_paths[n]
    /\ pc \in {"page", "save", "returned", "raised"} =>
          all_parsed = ConcatYield(Present(SubSeq(html_paths, 1, idx - 1)))
    /\ Aggregated =>
          LET all == ConcatYield(Present(html_paths))
          IN parsed_books = FirstOccurrences(all, Len(all))
    /\ (pc = "returned" /\ Len(html_paths) = 1 /\ ~FS(html_paths[1]).exists) =>
          /\ parsed_books = <<>>
          /\ ~parse_success
          /\ \E e \in Range(parse_error) : e.kind = "HTML file not found"

\* a missing page came before a page that contributed records
C5_Witness ==
    /\ pc = "returned"
    /\ \E n, m \in 1..Len(html_paths) :
          /\ n < m
          /\ ~FS(html_paths[n]).exists
          /\ PageYield(html_paths[m]) # <<>>
          /\ Range(PageYield(html_paths[m])) \subseteq Range(parsed_books)

\* C6: when a page raises inside the try block after some of its blocks became
\* records, none of these records reaches the result, one error naming the
\* cause is recorded for the page, and the pages after it are still processed.
C6_PageAllOrNothing ==
    \A n \in 1..Len(html_paths) :
        (n < idx /\ RaisesInTry(html_paths[n])) =>
            /\ Cardinality(ErrorsFor(n)) = 1
            /\ \A i \in ErrorsFor(n) :
                  /\ errors[i].kind = "Parse error"
                  /\ errors[i].what =
                        IF FS(html_paths[n]).readable THEN "block" ELSE "read"
            /\ \A rec \in Range(PartialRecords(html_paths[n])) :
                  rec \in Range(all_parsed) \cup Range(parsed_books) =>
                      \E m \in 1..Len(html_paths) :
                          m # n /\ m < idx /\ rec \in Range(PageYield(html_paths[m]))
            /\ pc \in {"page", "save", "returned", "raised"} =>
                  \A m \in (n + 1)..(idx - 1) :
                      Range(PageYield(html_paths[m])) \subseteq Range(all_parsed)

\* a page raised after its first block had become a record, a later page
\* contributed, and the partial record is not in the result
C6_Witness ==
    /\ pc = "returned"
    /\ \E n, m \in 1..Len(html_paths) :
          /\ n < m
          /\ PartialRecords(html_paths[n]) # <<>>
          /\ Range(PartialRecords(html_paths[n])) \cap Range(parsed_books) = {}
          /\ PageYield(html_paths[m]) # <<>>
          /\ Range(PageYield(html_paths[m])) \subseteq Range(parsed_books)

\* C7: whenever parse_html returns no record, parsed_books is empty,
\* parse_success is false and parse_error is not null; parse_success false
\* implies parse_error not null on every return path.
C7_FailureExplained ==
    "parse_error" \in out_keys =>
        /\ ~parse_success => parse_error # <<>>
        /\ parsed_books = <<>> => (~parse_success /\ parse_error # <<>>)

\* pages were read without any page error and every located block was dropped
C7_Witness ==
    /\ pc = "returned"
    /\ html_paths # <<>>
    /\ errors = <<>>
    /\ parsed_books = <<>>
    /\ parse_error = <<NoItemsError>>

\* the raw path list the pages are taken from, before falsy values are removed
InputList(st) ==
    IF st.saved_html_paths # <<>> THEN st.saved_html_paths
    ELSE << IF st.saved_html_path # NoPath THEN st.saved_html_path ELSE st.html_path >>

\* a page that ends in a page-scoped error, and the kind of that error
Fails(path) == path # NoPath /\ (~FS(path).exists \/ RaisesInTry(path))
FailureKind(path) ==
    IF FS(path).exists THEN "Parse error" ELSE "HTML file not found"

RECURSIVE ExpectedEntries(_, _)
\* <<position, kind>> for each failing page from position n on, in order
ExpectedEntries(paths, n) ==
    IF n > Len(paths) THEN <<>>
    ELSE (IF Fails(paths[n]) THEN << <<n, FailureKind(paths[n])>> >> ELSE <<>>)
         \o ExpectedEntries(paths, n + 1)

\* <<N, kind>> of the entries of a message
EntryHeads(entries) ==
    [ i \in 1..Len(entries) |-> <<entries[i].page, entries[i].kind>> ]

\* the "[Page N]" entries of a message
PageEntries(entries) == SelectSeq(entries, LAMBDA e : e.page > 0)

\* C8 as stated: parse_error holds exactly one "[Page N]" entry per failed
\* page, N the position in the input path list, in page order, and is null
\* when no page failed and a record was produced.
C8_AsStated ==
    (pc = "returned" /\ html_paths # <<>>) =>
        LET expected == ExpectedEntries(InputList(state), 1)
        IN /\ expected # <<>> => EntryHeads(parse_error) = expected
           /\ (expected = <<>> /\ parsed_books # <<>>) => parse_error = <<>>

\* C8 amended: N is the position among the non-empty paths of the input list,
\* the page entries come in page order, followed by the explanation when
\* nothing failed and nothing was parsed, and by a SaveError entry when the
\* JSONL write failed; parse_error is null when no page failed, a record
\* was produced and the write did not fail.
C8_PageErrorEntries ==
    (pc = "returned" /\ html_paths # <<>>) =>
        LET pages == PageEntries(parse_error)
        IN /\ EntryHeads(pages) = ExpectedEntries(html_paths, 1)
           /\ parse_error =
                 pages
                 \o (IF pages = <<>> /\ parsed_books = <<>> THEN <<NoItemsError>> ELSE <<>>)
                 \o (IF state.out_jsonl = OutBad THEN <<SaveError(state.out_jsonl)>> ELSE <<>>)
           /\ (pages = <<>> /\ parsed_books # <<>> /\ state.out_jsonl # OutBad)
                 => parse_error = <<>>

\* pages 1 and 3 failed in different ways around a page that parsed
C8_Witness ==
    /\ pc = "returned"
    /\ parsed_books # <<>>
    /\ Len(PageEntries(parse_error)) = 2
    /\ PageEntries(parse_error)[1].page = 1
    /\ PageEntries(parse_error)[2].page = 3
    /\ PageEntries(parse_error)[1].kind # PageEntries(parse_error)[2].kind

\* C9: a failing JSONL write appends its error to parse_error (or becomes it),
\* leaves parsed_books and parse_success as computed before the attempt, and
\* leaves no entry for the file in saved.
C9_SaveFailureKeepsResult ==
    [][ (pc = "save" /\ pc' = "returned" /\ state.out_jsonl = OutBad) =>
            /\ Len(parse_error') = Len(parse_error) + 1
            /\ SubSeq(parse_error', 1, Len(parse_error)) = parse_error
            /\ parse_error'[Len(parse_error')].kind = "SaveError"
            /\ parsed_books' = parsed_books
            /\ parse_success' = parse_success
            /\ \A i \in 1..Len(saved') : saved'[i][2] # state.out_jsonl
      ]_vars

\* the write failed after a partial failure that still produced records
C9_Witness ==
    /\ pc = "returned"
    /\ state.out_jsonl = OutBad
    /\ parsed_books # <<>>
    /\ parse_success
    /\ Len(parse_error) >= 2
    /\ parse_error[Len(parse_error)].kind = "SaveError"
    /\ saved = <<>>

\* C10: parse_html never ends with an unhandled exception, and what it returns
\* holds parsed_books, parse_success and parse_error.
C10_NeverRaises ==
    /\ pc # "raised"
    /\ pc = "returned" =>
          {"parsed_books", "parse_success", "parse_error"} \subseteq out_keys

\* ------------------------------------------------------------------------
\* Claims about the helpers (behaviours of SpecExtract)
\* ------------------------------------------------------------------------
Returned(fn) == pc = "done" /\ call.fn = fn

\* C11: the block locator returns exactly the matches of the first selector
\* tier, in the fixed order, that matches anything, in document order;
\* nothing a lower tier alone matches is returned, and the result is empty
\* only when no tier matches.
C11_FirstMatchingTier ==
    Returned("_find_item_blocks") =>
        LET doc == call.arg
            matched(k) == { i \in 1..Len(doc) : k \in doc[i] }
            tiers == { k \in 1..5 : matched(k) # {} }
        IN /\ (ret = <<>>) <=> (tiers = {})
           /\ tiers # {} =>
                LET first == CHOOSE k \in tiers : \A m \in tiers : k <= m
                IN /\ Range(ret) = matched(first)
                   /\ Len(ret) = Cardinality(matched(first))
                   /\ \A i, j \in 1..Len(ret) : i < j => ret[i] < ret[j]

\* a higher tier matched and an element only lower tiers match was left out
C11_Witness ==
    /\ Returned("_find_item_blocks")
    /\ ret # <<>>
    /\ \E i \in 1..Len(call.arg) : call.arg[i] # {} /\ i \notin Range(ret)

\* ------------------------------------------------------------------------
\* Claims about parse_html, continued (behaviours of Spec)
\* ------------------------------------------------------------------------
Titled(rec) == rec.title # NoneStr /\ rec.title # <<>>

NoTitle(block) == ExtractTitleFromBlock(block) \in {NoneStr, <<>>}

\* C12: a block without a title yields no record and no error entry: the
\* step over it leaves the page's records and the error list as they were,
\* the blocks before and after it keep their records, every record has a
\* non-empty title, and every page entry of parse_error names a page that
\* is missing or failed.
C12_UntitledDropped ==
    [][ /\ \A i \in 1..Len(page_parsed') : Titled(page_parsed'[i])
        /\ \A i \in 1..Len(parsed_books') : Titled(parsed_books'[i])
        /\ pc' = "block" =>
              Len(page_parsed')
                = Cardinality({ i \in 1..(bi' - 1) : ~NoTitle(item_blocks'[i]) })
        /\ \A i \in 1..Len(parse_error') :
              parse_error'[i].page > 0 => Fails(html_paths'[parse_error'[i].page])
        /\ ( /\ pc = "block"
             /\ bi <= Len(item_blocks)
             /\ ~item_blocks[bi].raises
             /\ NoTitle(item_blocks[bi]) )
           => /\ page_parsed' = page_parsed
              /\ errors' = errors
              /\ all_parsed' = all_parsed
              /\ parse_error' = parse_error
              /\ pc' = "block"
              /\ bi' = bi + 1
      ]_vars

\* an untitled block was dropped between two blocks that gave a record each
C12_Witness ==
    /\ pc = "block"
    /\ bi = 4
    /\ NoTitle(item_blocks[2])
    /\ Len(page_parsed) = 2
    /\ errors = <<>>

\* ------------------------------------------------------------------------
\* Claims about the helpers, continued (behaviours of SpecExtract)
\* ------------------------------------------------------------------------
\* the candidate strings collected for a block: the cleaned, prefix-stripped
\* texts of the selector hits, or the img alt text when there is no hit
Collected(block) ==
    LET structural == TitleCandidates(block.titleHits)
    IN IF structural # <<>> THEN Range(structural)
       ELSE IF block.imgAlt # NoneStr /\ Clean(block.imgAlt) # <<>>
            THEN {Clean(block.imgAlt)}
            ELSE {}

\* C13: the title extractor returns a collected candidate that contains
\* Hangul and is at least as long as every collected candidate containing
\* Hangul; it returns nothing exactly when no collected candidate contains
\* Hangul.
C13_LongestHangulTitle ==
    Returned("_extract_title_from_block") =>
        LET hangul == { c \in Collected(call.arg) : HasKorean(c) }
        IN /\ (ret = NoneStr) <=> (hangul = {})
           /\ ret # NoneStr =>
                /\ ret \in hangul
                /\ \A c \in hangul : StrLen(c) <= StrLen(ret)

\* a shorter Hangul candidate and a longer candidate without Hangul lost
C13_Witness ==
    /\ Returned("_extract_title_from_block")
    /\ ret # NoneStr
    /\ \E c \in Collected(call.arg) : HasKorean(c) /\ StrLen(c) < StrLen(ret)
    /\ \E c \in Collected(call.arg) : ~HasKorean(c)

\* the b and strong tags in the order the extractor visits them: the
\* block's b tags, its strong tags, then those of the whole search scope
BoldScan(block) ==
    SelectNodes(block.nodes, {"b"}) \o SelectNodes(block.nodes, {"strong"})
    \o SelectNodes(SearchScope(block), {"b"})
    \o SelectNodes(SearchScope(block), {"strong"})

\* s holds 대출가능, 대출중 or 대출불가 (with or without the inner space)
LoanSignal(s) ==
    \/ Contains(s, KwAvail)
    \/ Contains(s, KwLoan) \/ Contains(s, KwLoanSp)
    \/ Contains(s, KwUnavail) \/ Contains(s, KwUnavailSp)

\* the bracket content holds one of 대출가능, 대출중, 대출불가, 예약중
BracketSignal(text) ==
    LET c == BracketContent(Clean(text))
    IN /\ c # NoneStr
       /\ \/ Contains(c, KwAvail) \/ Contains(c, KwLoan)
          \/ Contains(c, KwUnavail) \/ Contains(c, KwReserved)

\* the phrase a bracket content stands for
BracketPhrase(text) ==
    LET c == BracketContent(Clean(text))
    IN IF Contains(c, KwAvail) THEN KwAvail
       ELSE IF Contains(c, KwLoan) \/ Contains(c, KwLoanSp) THEN KwLoan
       ELSE KwUnavail

\* tag i of the scan is the first one that carries any status
Decides(scan, i) ==
    /\ i \in 1..Len(scan)
    /\ BracketSignal(scan[i].text) \/ LoanSignal(Clean(scan[i].text))
    /\ \A j \in 1..(i - 1) :
          ~BracketSignal(scan[j].text) /\ ~LoanSignal(Clean(scan[j].text))

ExcludedTag(node) == Clean(node.text) \in {ExclReserve, ExclILL}

\* the only tags of the search scope that hold a status keyword are
\* excluded-phrase tags, and there is one
OnlyExcludedTags(block) ==
    LET scope == SearchScope(block)
    IN /\ \E i \in 1..Len(scope) : ExcludedTag(scope[i])
       /\ \A i \in 1..Len(scope) :
             ExcludedTag(scope[i]) \/ ~HasStatusKw(Clean(scope[i].text))

\* C15: a block whose only status-bearing tags read 도서예약불가 or
\* 상호대차불가 is resolved by the full-text fallback, not by rules 1 to 4:
\* the result is the first status keyword found in the text (상호대차 or
\* 예약불가), never the tag's own text and never 대출불가.
C15_ExcludedPhraseFallsThrough ==
    (Returned("_extract_status_from_block") /\ OnlyExcludedTags(call.arg)) =>
        LET scope == SearchScope(call.arg)
            hits == Hits(ScopeText(scope))
        IN /\ ret = hits[1]
           /\ ret # KwUnavail
           /\ \A i \in 1..Len(scope) : ret # Clean(scope[i].text)

\* the only status-bearing tag is a span reading 상호대차불가
C15_Witness ==
    /\ Returned("_extract_status_from_block")
    /\ OnlyExcludedTags(call.arg)
    /\ \E i \in 1..Len(call.arg.nodes) :
          call.arg.nodes[i] = Node("span", "", ExclILL)
    /\ ret = <<"sanghodaecha">>

\* ------------------------------------------------------------------------
\* Claims about parse_html, continued (behaviours of Spec)
\* ------------------------------------------------------------------------
\* C16: the dedup pass is idempotent: run on the list it produced
\* (parsed_books), or twice on the merged list all_parsed, it gives the
\* same records in the same order as one run.
C16_DedupIdempotent ==
    Aggregated =>
        /\ Dedup(parsed_books) = parsed_books
        /\ Dedup(Dedup(all_parsed)) = Dedup(all_parsed)

\* the pass dropped duplicates and kept at least two records
C16_Witness ==
    /\ Aggregated
    /\ Len(parsed_books) >= 2
    /\ Len(all_parsed) >= Len(parsed_books) + 2

\* the entry that records a written JSONL file
JsonlEntry == <<"jsonl", state.out_jsonl>>

\* C17: after a run over pages with out_jsonl given, saved holds the entry
\* ("jsonl", path) exactly when the write succeeded (otherwise parse_error
\* ends with the SaveError entry); after a successful write the parent
\* directories of the path exist and the file holds one line per record of
\* parsed_books, in order, and nothing of its previous content.
C17_JsonlWritten ==
    (pc = "returned" /\ html_paths # <<>> /\ state.out_jsonl # NoPath) =>
        /\ saved \in { <<>>, <<JsonlEntry>> }
        /\ saved = <<JsonlEntry>> =>
              /\ jsonl_file = parsed_books
              /\ ParentDirs(state.out_jsonl) \subseteq dirs
              /\ \A i \in 1..Len(parse_error) : parse_error[i].kind # "SaveError"
        /\ saved = <<>> =>
              /\ parse_error # <<>>
              /\ parse_error[Len(parse_error)] = SaveError(state.out_jsonl)
        /\ state.out_jsonl \in {OutOk, OutNew} => saved = <<JsonlEntry>>

\* several records were written to a file in directories that did not exist
C17_Witness ==
    /\ pc = "returned"
    /\ state.out_jsonl = OutNew
    /\ ~(ParentDirs(OutNew) \subseteq InitialDirs)
    /\ ParentDirs(OutNew) \subseteq dirs
    /\ Len(parsed_books) >= 2
    /\ jsonl_file = parsed_books
    /\ saved = <<JsonlEntry>>

\* the pages the three input keys select, by priority
ChosenPages(st) ==
    IF st.saved_html_paths # <<>>
    THEN SelectSeq(st.saved_html_paths, LAMBDA q : q # NoPath)
    ELSE IF st.saved_html_path # NoPath THEN <<st.saved_html_path>>
    ELSE IF st.html_path # NoPath THEN <<st.html_path>>
    ELSE <<>>

\* C18: the pages are those of a non-empty saved_html_paths list (the other
\* two keys ignored), else the single saved_html_path, else the single
\* html_path; with no path at all parse_html returns parse_success false,
\* parsed_books empty and the "No html_path provided" message, without
\* opening a page and without touching the JSONL output.
C18_InputKeyPriority ==
    /\ pc # "start" => html_paths = ChosenPages(state)
    /\ (pc = "returned" /\ ChosenPages(state) = <<>>) =>
          /\ ~parse_success
          /\ parsed_books = <<>>
          /\ parse_error = <<NoPathError>>
          /\ idx = 0
          /\ item_blocks = <<>>
          /\ saved = <<>>
          /\ "saved" \notin out_keys
          /\ dirs = InitialDirs
          /\ jsonl_file = (IF state.out_jsonl = OutNew THEN <<>> ELSE StaleLines)

\* the list was used although both single-page keys were set as well
C18_Witness ==
    /\ pc = "returned"
    /\ state.saved_html_paths = <<"C">>
    /\ state.saved_html_path = "A"
    /\ state.html_path = "B"
    /\ html_paths = <<"C">>
    /\ parse_success

\* ------------------------------------------------------------------------
\* Claims about the status rules (behaviours of SpecExtract)
\* ------------------------------------------------------------------------
\* the first b/span/em tag of emphasis class number k in the scope, 0 if none
FirstOfClass(scope, k) ==
    LET found == { i \in 1..Len(scope) :
                     /\ scope[i].tag \in {"b", "span", "em"}
                     /\ scope[i].cls = EmphasisClasses[k] }
    IN IF found = {} THEN 0 ELSE CHOOSE i \in found : \A j \in found : i <= j

\* the tag holds a status keyword and none of the excluded phrases
Rule1Applies(scope, k) ==
    /\ FirstOfClass(scope, k) # 0
    /\ LET t == Clean(scope[FirstOfClass(scope, k)].text)
       IN /\ HasStatusKw(t)
          /\ ~Contains(t, ExclReserve)
          /\ ~Contains(t, ExclILL)
          /\ ~Contains(t, ExclKiosk)

\* C19: when rule 1 applies, the result is the canonical phrase of the
\* keyword in the emphasis-class tag: 대출가능 for a tag holding 대출가능,
\* 대출중 for one holding 대출중, 대출불가 for one holding 대출불가.
C19_Rule1CanonicalPhrase ==
    Returned("_extract_status_from_block") =>
        LET scope == SearchScope(call.arg)
        IN \A k \in 1..Len(EmphasisClasses) :
              ( /\ Rule1Applies(scope, k)
                /\ \A m \in 1..(k - 1) : ~Rule1Applies(scope, m) )
              => LET t == Clean(scope[FirstOfClass(scope, k)].text)
                 IN /\ Contains(t, KwAvail) => ret = KwAvail
                    /\ (~Contains(t, KwAvail) /\ Contains(t, KwLoan))
                          => ret = KwLoan
                    /\ ( /\ ~Contains(t, KwAvail)
                         /\ ~Contains(t, KwLoan)
                         /\ Contains(t, KwUnavail) ) => ret = KwUnavail

\* the phrase of a tag text without a usable bracket: 대출가능 > 대출중 > 대출불가
OuterPhrase(text) ==
    LET t == Clean(text)
    IN IF Contains(t, KwAvail) THEN KwAvail
       ELSE IF Contains(t, KwLoan) \/ Contains(t, KwLoanSp) THEN KwLoan
       ELSE KwUnavail

\* rule 1 gave nothing and the text holds a status keyword
BoldRulesReached(block) ==
    /\ Hits(ScopeText(SearchScope(block))) # <<>>
    /\ StatusRule1(SearchScope(block), 1) = NoneStr

\* C20 as stated: when rule 1 does not apply and some b/strong tag carries a
\* bracketed qualifier with a status signal, the result is the mapped
\* phrase of (the first such) bracket, whatever the un-bracketed b/strong
\* tags before it say.
C20_AsStated ==
    (Returned("_extract_status_from_block") /\ BoldRulesReached(call.arg)) =>
        LET scan == BoldScan(call.arg)
        IN \A i \in 1..Len(scan) :
              ( /\ BracketSignal(scan[i].text)
                /\ \A j \in 1..(i - 1) : ~BracketSignal(scan[j].text) )
              => ret = BracketPhrase(scan[i].text)

\* C20, amended: when rule 1 does not apply, the b/strong tags are taken one
\* by one in scan order and the first tag that carries any status decides:
\* its bracket's mapped phrase if it has a bracketed qualifier with a status
\* signal, else its un-bracketed phrase; later tags, bracketed or not, are
\* not looked at.
C20_FirstBoldTagDecides ==
    (Returned("_extract_status_from_block") /\ BoldRulesReached(call.arg)) =>
        LET scan == BoldScan(call.arg)
        IN \A i \in 1..Len(scan) :
              Decides(scan, i)
              => ret = IF BracketSignal(scan[i].text)
                       THEN BracketPhrase(scan[i].text)
                       ELSE OuterPhrase(scan[i].text)

\* an un-bracketed 대출가능 tag decided although a later tag carries a
\* bracket that stands for another phrase
C20_Witness ==
    /\ Returned("_extract_status_from_block")
    /\ BoldRulesReached(call.arg)
    /\ Decides(BoldScan(call.arg), 1)
    /\ ~BracketSignal(BoldScan(call.arg)[1].text)
    /\ \E j \in 2..Len(BoldScan(call.arg)) :
          /\ BracketSignal(BoldScan(call.arg)[j].text)
          /\ BracketPhrase(BoldScan(call.arg)[j].text) # ret
    /\ ret = KwAvail

\* no b/strong tag of the scan has a bracket holding a status signal
NoBracketMatched(block) ==
    \A i \in 1..Len(BoldScan(block)) : ~BracketSignal(BoldScan(block)[i].text)

\* some b/strong tag of the scan holds phrase kw (or its spaced spelling)
SomeBoldHas(block, kw, kwSp) ==
    \E i \in 1..Len(BoldScan(block)) :
       \/ Contains(Clean(BoldScan(block)[i].text), kw)
       \/ Contains(Clean(BoldScan(block)[i].text), kwSp)

\* C21 as stated: when rule 1 does not apply and no bracket matched, the
\* result is 대출가능 if any b/strong tag holds it, else 대출중 if any holds
\* it, else 대출불가, whatever the order of the tags.
C21_AsStated ==
    ( /\ Returned("_extract_status_from_block")
      /\ BoldRulesReached(call.arg)
      /\ NoBracketMatched(call.arg)
      /\ \E i \in 1..Len(BoldScan(call.arg)) :
            LoanSignal(Clean(BoldScan(call.arg)[i].text)) )
    => ret = IF SomeBoldHas(call.arg, KwAvail, KwAvail) THEN KwAvail
             ELSE IF SomeBoldHas(call.arg, KwLoan, KwLoanSp) THEN KwLoan
             ELSE KwUnavail

\* C21, amended: when rule 1 does not apply and no bracket matched, the
\* first b/strong tag in scan order that holds a loan phrase decides, and
\* the precedence 대출가능 > 대출중 > 대출불가 holds inside that tag's text
\* only; the phrases of later tags are not looked at.
C21_FirstPlainBoldTagDecides ==
    ( /\ Returned("_extract_status_from_block")
      /\ BoldRulesReached(call.arg)
      /\ NoBracketMatched(call.arg) )
    => \A i \in 1..Len(BoldScan(call.arg)) :
          ( /\ LoanSignal(Clean(BoldScan(call.arg)[i].text))
            /\ \A j \in 1..(i - 1) : ~LoanSignal(Clean(BoldScan(call.arg)[j].text)) )
          => ret = OuterPhrase(BoldScan(call.arg)[i].text)

\* a 대출불가 tag decided although a later tag reads 대출가능
C21_Witness ==
    /\ Returned("_extract_status_from_block")
    /\ BoldRulesReached(call.arg)
    /\ NoBracketMatched(call.arg)
    /\ ret = KwUnavail
    /\ SomeBoldHas(call.arg, KwAvail, KwAvail)

\* the em tags, then the span tags, of the block and its parent
SpanTags(block) ==
    SelectNodes(SearchScope(block), {"em"}) \o SelectNodes(SearchScope(block), {"span"})

\* the em/span tags rule 4 looks at: a status keyword and no excluded phrase
LiveSpans(block) ==
    { i \in 1..Len(SpanTags(block)) :
        LET t == Clean(SpanTags(block)[i].text)
        IN /\ HasStatusKw(t)
           /\ ~Contains(t, ExclReserve)
           /\ ~Contains(t, ExclILL) }

\* the text before the first "(" or "[" of t, without outer whitespace
Fragment(t) ==
    LET n == CHOOSE k \in 1..(Len(t) + 1) :
                /\ k <= Len(t) => t[k] \in {"(", "["}
                /\ \A m \in 1..(k - 1) : t[m] \notin {"(", "["}
    IN Strip(SubSeq(t, 1, n - 1))

\* rules 1 to 3 gave nothing
SpanRuleReached(block) ==
    /\ BoldRulesReached(block)
    /\ StatusRuleBold(block) = NoneStr

\* C22: when rules 1 to 3 give nothing, the em/span tags with a status
\* keyword and no excluded phrase decide: 대출가능 if any of them holds it,
\* else the loan phrase of the first that holds one; with no such phrase
\* the result is the text before the first "(" or "[" of the first such tag
\* shorter than 30 characters that has any; a fragment is never returned
\* while a loan phrase exists, nor taken from a tag of 30 characters or more.
C22_SpanRule ==
    (Returned("_extract_status_from_block") /\ SpanRuleReached(call.arg)) =>
        LET tags == SpanTags(call.arg)
            live == LiveSpans(call.arg)
            primary == { i \in live : LoanSignal(Clean(tags[i].text)) }
            short == { i \in live : /\ StrLen(Clean(tags[i].text)) < 30
                                    /\ Fragment(Clean(tags[i].text)) # <<>> }
        IN /\ (\E i \in primary : Contains(Clean(tags[i].text), KwAvail))
                => ret = KwAvail
           /\ primary # {} =>
                /\ ret \in {KwAvail, KwLoan, KwUnavail}
                /\ ret # KwAvail =>
                      ret = OuterPhrase(tags[CHOOSE i \in primary :
                                                \A j \in primary : i <= j].text)
           /\ (primary = {} /\ short # {}) =>
                ret = Fragment(Clean(tags[CHOOSE i \in short :
                                                \A j \in short : i <= j].text))

\* a fragment was cut at its parenthesis, after a longer tag was passed over
C22_Witness ==
    /\ Returned("_extract_status_from_block")
    /\ SpanRuleReached(call.arg)
    /\ call.arg.nodes = << Node("span", "", <<"lorem30", " ", "yeyak", "ganeung">>),
                           Node("span", "", <<"yeyak", "ganeung", "(", "abc", ")">>) >>
    /\ ret = <<"yeyak", "ganeung">>

\* rules 1 to 4 gave nothing
FallbackReached(block) ==
    /\ SpanRuleReached(block)
    /\ LET ps == SpanScan(SpanTags(block), NoneStr, NoneStr)
       IN ps[1] \in {NoneStr, <<>>} /\ ps[2] \in {NoneStr, <<>>}

RECURSIVE Redacted(_)
\* the text with every 도서예약불가 and 상호대차불가 blanked out
Redacted(txt) ==
    IF txt = <<>> THEN <<>>
    ELSE IF Len(txt) >= 3 /\ SubSeq(txt, 1, 3) = ExclReserve
         THEN <<"#">> \o Redacted(SubSeq(txt, 4, Len(txt)))
    ELSE IF Len(txt) >= 2 /\ SubSeq(txt, 1, 2) = ExclILL
         THEN <<"#">> \o Redacted(SubSeq(txt, 3, Len(txt)))
    ELSE <<Head(txt)>> \o Redacted(Tail(txt))

\* C23: when rules 1 to 4 give nothing, the result is a status keyword that
\* occurs in the text of the block and its parent outside the excluded
\* phrases 도서예약불가 and 상호대차불가; a keyword found only inside such a
\* phrase is not returned.
C23_FallbackSkipsExcluded ==
    (Returned("_extract_status_from_block") /\ FallbackReached(call.arg)) =>
        /\ \E k \in 1..Len(STATUS_KEYWORDS) : ret = STATUS_KEYWORDS[k]
        /\ Contains(Redacted(ScopeText(SearchScope(call.arg))), ret)

\* C29: the status extractor returns nothing exactly when the text of the
\* block and its parent holds none of the status keywords; with a keyword
\* in that text the result is a non-empty string.
C29_StatusIffKeyword ==
    Returned("_extract_status_from_block") =>
        /\ (ret = NoneStr) <=> ~HasStatusKw(ScopeText(SearchScope(call.arg)))
        /\ ret # <<>>

\* the only keyword is outside every scanned tag and the fallback named it
C29_Witness ==
    /\ Returned("_extract_status_from_block")
    /\ FallbackReached(call.arg)
    /\ ret = <<"banapyejeongil">>

\* a tag that states a status: an emphasis-class tag with a status keyword,
\* or a span with a loan phrase
StatusTag(node) ==
    \/ /\ node.tag \in {"b", "span", "em"}
       /\ \E k \in 1..Len(EmphasisClasses) : node.cls = EmphasisClasses[k]
       /\ HasStatusKw(Clean(node.text))
    \/ node.tag = "span" /\ LoanSignal(Clean(node.text))

\* the block as it would be with no sibling under its parent
WithoutSiblings(block) == [block EXCEPT !.before = <<>>, !.after = <<>>]

\* C28: when a block and a sibling block under the same parent each hold a
\* status tag of their own, the status of the block (and so its available
\* flag) is the one it has without the sibling: the sibling's tag has no
\* influence.
C28_SiblingIndependent ==
    ( /\ Returned("_extract_status_from_block")
      /\ call.arg.hasParent
      /\ \E i \in 1..Len(call.arg.nodes) : StatusTag(call.arg.nodes[i])
      /\ \E i \in 1..Len(call.arg.before) : StatusTag(call.arg.before[i]) )
    => ret = ExtractStatusFromBlock(WithoutSiblings(call.arg))

\* the cleaned, non-empty texts of the em and span tags, in document order
Fragments(block) ==
    LET tags == SelectNodes(block.nodes, {"em", "span"})
        kept == { i \in 1..Len(tags) : Clean(tags[i].text) # <<>> }
    IN [ i \in kept |-> Clean(tags[i].text) ]

\* a fragment that names a library: a hint, no status keyword, 50 characters
\* at most
Survives(c) ==
    /\ \E h \in 1..Len(LIBRARY_HINTS) : Contains(c, LIBRARY_HINTS[h])
    /\ ~HasStatusKw(c)
    /\ StrLen(c) <= 50

\* the position of the longest surviving fragment, the latest of the
\* longest; 0 when none survives
BestFragment(block) ==
    LET f == Fragments(block)
        ok == { i \in DOMAIN f : Survives(f[i]) }
    IN IF ok = {} THEN 0
       ELSE CHOOSE i \in ok :
               \A j \in ok : \/ StrLen(f[j]) < StrLen(f[i])
                             \/ StrLen(f[j]) = StrLen(f[i]) /\ j <= i

\* the value without a leading "도서관:" label
Unlabelled(lib) ==
    IF Len(lib) >= 2 /\ lib[1] = "doseogwan" /\ LStrip(Tail(lib)) # <<>>
       /\ Head(LStrip(Tail(lib))) = ":"
    THEN Strip(Tail(LStrip(Tail(lib))))
    ELSE lib

AfterSeparator(s) ==
    LET seps == { i \in 1..Len(s) : s[i] \in {".", "-"} }
    IN IF seps = {} THEN <<>>
       ELSE SubSeq(s, (CHOOSE i \in seps : \A j \in seps : i <= j) + 1, Len(s))

\* C25: a call number that the direct pattern matched (the block has no
\* "청구기호" label) has a Hangul syllable after its separator; a date such
\* as 2024-10-27 is never returned.
C25_DirectPatternNeedsHangul ==
    ( /\ Returned("_extract_call_number")
      /\ ~Contains(call.arg.text, <<"cheonggugiho">>)
      /\ ret # NoneStr )
    => \E i \in 1..Len(AfterSeparator(ret)) : AfterSeparator(ret)[i] \in HangulChars

\* a src that starts with "http" and carries no placeholder marker in any
\* letter case
UsableSrc(src) ==
    /\ src # <<>>
    /\ src[1] \in {"http", "https"}
    /\ \A i \in 1..Len(src) :
          src[i] \notin {"noimg", "NOIMG", "NoImg", "no-image", "NO-IMAGE"}

\* v is the first usable src of srcs
FirstUsable(srcs, v) ==
    \E i \in 1..Len(srcs) :
        /\ srcs[i] = v
        /\ UsableSrc(v)
        /\ \A j \in 1..(i - 1) : ~UsableSrc(srcs[j])

ValidAuthor(a) ==
    /\ a # NoneStr
    /\ a # <<>>
    /\ StrLen(a) <= 50
    /\ HasKorean(a)

\* what each strategy reads from each of its tags, in the order the
\* strategies are tried
AuthorCandidates(block) ==
    [ i \in 1..Len(block.info01) |-> DirectAuthor(block.info01[i], MetaStartsInfo) ]
    \o [ i \in 1..Len(block.second) |-> DirectAuthor(block.second[i], MetaStartsItem) ]
    \o [ i \in 1..Len(block.spans) |-> LabelledAuthor(block.spans[i], FALSE) ]
    \o << LabelledAuthor(block.text, TRUE) >>

\* C27: every author the extractor returns is non-empty, at most 50
\* characters long and contains Hangul, and it is the first valid value in
\* the order info01 containers, second descriptor items, labelled spans of
\* author-classed tags, label in the whole block text; nothing is returned
\* when no strategy yields a valid value.
C27_AuthorFirstValidStrategy ==
    Returned("_extract_author") =>
        LET c == AuthorCandidates(call.arg)
            valid == { i \in 1..Len(c) : ValidAuthor(c[i]) }
        IN /\ ret # NoneStr => ValidAuthor(ret)
           /\ IF valid = {} THEN ret = NoneStr
              ELSE ret = c[CHOOSE i \in valid : \A j \in valid : i <= j]

\* the info01 text is too long with its suffix and the second item is only
\* a suffix, so the labelled span decides, cut to 49 characters
C27_Witness ==
    /\ Returned("_extract_author")
    /\ call.arg.info01 = << <<"lorem30", "lorem19", " ", "geul-geurim">> >>
    /\ call.arg.second = << <<"jieum">> >>
    /\ call.arg.spans = << <<"jeoja", ":", " ", "lorem30", "lorem30">>,
                           <<"jakga", " ", ":", " ", "lorem30", "lorem19", " ", "jieum">> >>
    /\ ret = <<"lorem30", "lorem19">>

\* the result entries as parse_html has set them
ResultEntry(k) ==
    CASE k = "parsed_books" -> parsed_books
      [] k = "parse_success" -> parse_success
      [] k = "parse_error" -> parse_error
      [] k = "saved" -> saved

\* the returned dict has the keys of the input and the keys that were set;
\* a key that was not set has the value of the input, a key that was set
\* has the result
CarriedOver ==
    /\ DOMAIN out = DOMAIN state \cup out_keys
    /\ \A k \in DOMAIN state \ out_keys : out[k] = state[k]
    /\ \A k \in out_keys : out[k] = ResultEntry(k)

\* C30: parse_html never changes the dict it is given, and the dict it
\* returns carries every input key it did not set over with the input's
\* value, whether the run succeeds, fails in part, has no path or cannot
\* write its file.
C30_WorksOnCopy ==
    /\ [](pc = "returned" => CarriedOver)
    /\ [][state' = state]_vars

\* a run that could not write its file returned: the input still holds the
\* stale results of an earlier run, the returned dict holds the new ones
\* next to the carried-over place and title
C30_Witness ==
    /\ pc = "returned"
    /\ state.out_jsonl = OutBad
    /\ html_paths # <<>>
    /\ "parse_error" \in DOMAIN state
    /\ state.parse_error = "stale"
    /\ out.parse_error # <<>>
    /\ out.saved = <<>>
    /\ state.saved = "stale"
    /\ out.place = state.place
    /\ parsed_books # <<>>

====
